---- MODULE Spec2Model ----
(***************************************************************************)
(* voice2text: the per-microphone voice-activity segmenter                 *)
(* (rust/src/microphone.rs) and the terminal event loop (rust/src/ui.rs).  *)
(*                                                                         *)
(* Samples are fixed-point integers in thousandths of full scale, so the   *)
(* activity threshold 0.01 is the integer 10 and a mean is compared as a   *)
(* fraction (num/den) without rounding.  Instants are integer ticks of a   *)
(* monotonic clock, TicksPerSecond of them to the second.                  *)
(***************************************************************************)
EXTENDS Integers, Sequences, FiniteSets, TLC

\* ------------------------------------------------------------------ bounds
TicksPerSecond == 2      \* resolution of the modelled monotonic clock
MaxChunks == 3           \* driver buffers delivered in one behaviour
MaxLoopSteps == 3        \* iterations of the event loop in one behaviour
MaxDelivered == 2        \* driver buffers delivered while the event loop runs
MaxFrames == 7           \* short buffers given to downmix: 0 .. MaxFrames samples
MaxBlocks == 2           \* long buffers given to downmix: up to MaxBlocks resampler blocks

\* --------------------------------------------------------- program constants
Threshold == 10          \* amplitude > 0.01, in thousandths
HangSecs == 1            \* Duration::from_secs(1)
LevelsLen == 100         \* vec![0.0; 100] / levels.len() > 100
SAMPLE_RATE == 16000     \* pub const SAMPLE_RATE
FramesPerBuffer == 441   \* frames per buffer of the resampler

MaxClock == HangSecs * TicksPerSecond + 1

Devices == {"micA", "micB"}

\* The driver buffers fed to the segmenter, with the stream format they are
\* delivered under: an empty buffer, a buffer whose mean is exactly the
\* threshold, a zero buffer, and two active buffers (one with a negative
\* sample, so that abs() matters).
RawInputs ==
  { [data |-> << >>,       channels |-> 1, sample_rate |-> 16000],
    [data |-> <<20, 0>>,   channels |-> 2, sample_rate |-> 48000],
    [data |-> <<0>>,       channels |-> 1, sample_rate |-> 16000],
    [data |-> <<-30, 5>>,  channels |-> 2, sample_rate |-> 48000],
    [data |-> <<30>>,      channels |-> 1, sample_rate |-> 16000] }

\* device.default_input_config(): the channel count and the sample rate of
\* a stream are those of its device, the same for all its buffers.
DeviceFormat(d) ==
  IF d = "micA" THEN [channels |-> 1, sample_rate |-> 16000]
  ELSE [channels |-> 2, sample_rate |-> 48000]

\* The buffers device d delivers while the event loop runs: an active one
\* and a silent one, in the format of the device.
UiInputs(d) ==
  { in \in RawInputs : /\ in.data # << >>
                       /\ in.channels = DeviceFormat(d).channels
                       /\ in.sample_rate = DeviceFormat(d).sample_rate }

VARIABLES
  enabled,        \* config.microphones[name].enabled (default: true)
  micState,       \* Microphone.state, per device name
  audio_levels,   \* Microphone.audio_levels, per device name
  batchQ,         \* the channel the segmenter sends closed utterances on
  clock,          \* std::time::Instant::now()
  nChunks,        \* driver buffers delivered since the initial state
  trace,          \* history: per device, the buffers processed, in order
  last,           \* history: the most recent segmenter call
  pc,             \* where run_ui is: "draw", "select", "transcribing", "returned"
  result,         \* what run_ui returned: "none", "Ok", "Err"
  steps,          \* iterations of the loop so far
  rawQ,           \* raw_audio_sender / raw_audio_receiver
  request,        \* the batch chunk whose HTTP request is awaited
  resultQ,        \* transcription_sender / transcription_receiver
  logQ,           \* log_sender / log_receiver
  activity_log,   \* AppState.activity_log
  transcription_callbacks,  \* AppState.transcription_callbacks
  hue,            \* hue_auth_state, config.hue_username, config.hue_bridge_ip
  archive,        \* the transcript file, one record per saved result
  hist,           \* history: what was sent on and received from the audio channels
  norm,           \* the chunk AudioChunk::downmix is applied to, and what came of it
  wire,           \* the HTTP exchange of send_audio_for_transcription
  boot,           \* the host's devices, the configuration, and how far startup is
  term,           \* AppState.terminal, the modes of the terminal, and where run_app is
  key_config      \* config.key_config

segVars == <<enabled, micState, audio_levels, batchQ, clock, nChunks, trace, last, hist, norm, wire, boot>>
loopVars == <<pc, result, steps>>
chanVars == <<rawQ, request, resultQ, logQ>>
appVars == <<activity_log, transcription_callbacks, hue, archive, term, key_config>>
uiVars == <<loopVars, chanVars, appVars>>
vars == <<segVars, uiVars>>

\* ------------------------------------------------------------ MicrophoneState
Disabled == [tag |-> "Disabled"]
WaitingForPushToTalk == [tag |-> "WaitingForPushToTalk"]
WaitingForVoiceActivity == [tag |-> "WaitingForVoiceActivity"]

ActiveMicrophoneState(activity_started, last_activity, data_so_far, sample_rate) ==
  [activity_started |-> activity_started, last_activity |-> last_activity,
   data_so_far |-> data_so_far, sample_rate |-> sample_rate]

VoiceActivated(active_state) ==
  [tag |-> "VoiceActivated", active |-> active_state]

AudioChunk(data, channels, sample_rate) ==
  [data |-> data, channels |-> channels, sample_rate |-> sample_rate]

\* ------------------------------------------------------------------ helpers
\* The chunks of q, each with the device whose segmenter sent it.
Tagged(d, q) == [i \in 1 .. Len(q) |-> [dev |-> d, chunk |-> q[i]]]

Abs(x) == IF x < 0 THEN -x ELSE x

RECURSIVE SumAbs(_)
SumAbs(s) == IF s = << >> THEN 0 ELSE Abs(Head(s)) + SumAbs(Tail(s))

\* data.iter().map(|s| s.abs()).sum() / data.len(): a fraction; 0/0 is the
\* NaN an empty buffer produces.
amplitude(data) == [num |-> SumAbs(data), den |-> Len(data)]

IsActive_double(a) == a.den > 0 /\ a.num > 2 * Threshold * a.den

IsActive_ge(a) == a.den > 0 /\ a.num >= Threshold * a.den

\* amplitude > 0.01 (every comparison with NaN is false)
IsActive(a) == a.den > 0 /\ a.num > Threshold * a.den

PauseDetected_ge(elapsed) == elapsed >= HangSecs * TicksPerSecond

\* elapsed > Duration::from_secs(1)
PauseDetected(elapsed) == elapsed > HangSecs * TicksPerSecond

\* audio_levels is a Vec of LevelsLen values that starts as all zeros; it is
\* kept as the number of initial zeros still in it and the values pushed
\* after them.
InitLevels == [zeros |-> LevelsLen, pushed |-> << >>]

push_level(levels, a) ==
  LET pushed == Append(levels.pushed, a) IN
  IF levels.zeros + Len(pushed) > LevelsLen
  THEN IF levels.zeros > 0
       THEN [zeros |-> levels.zeros - 1, pushed |-> pushed]
       ELSE [zeros |-> 0, pushed |-> Tail(pushed)]
  ELSE [zeros |-> levels.zeros, pushed |-> pushed]

\* ------------------------------------------------- process_input_data_f32
\* WaitingForVoiceActivity, amplitude above the threshold.  The two fields
\* are set from two successive reads of the clock.
start_recording_empty(data, sample_rate, now1, now2) ==
  VoiceActivated(ActiveMicrophoneState(now1, now2, << >>, sample_rate))

start_recording(data, sample_rate, now1, now2) ==
  VoiceActivated(ActiveMicrophoneState(now1, now2, data, sample_rate))

\* VoiceActivated, amplitude above the threshold: "Continue recording"
continue_active(active_state, data, now) ==
  VoiceActivated([active_state EXCEPT !.last_activity = now,
                                      !.data_so_far = @ \o data])

continue_silent_drop(active_state, data) ==
  VoiceActivated(active_state)

\* VoiceActivated, not above the threshold, no pause yet: "Continue recording"
continue_silent(active_state, data) ==
  VoiceActivated([active_state EXCEPT !.data_so_far = @ \o data])

pause_chunk_with_closing(active_state, channel_count, data, sample_rate) ==
  AudioChunk(active_state.data_so_far \o data, channel_count, active_state.sample_rate)

pause_chunk_closing_rate(active_state, channel_count, data, sample_rate) ==
  AudioChunk(active_state.data_so_far, channel_count, sample_rate)

\* "Pause detected": the chunk sent for transcription
pause_chunk(active_state, channel_count, data, sample_rate) ==
  AudioChunk(active_state.data_so_far, channel_count, active_state.sample_rate)

disabled_as_waiting(state, amp, data, sample_rate, now1, now2) ==
  IF IsActive(amp) THEN start_recording(data, sample_rate, now1, now2) ELSE state

\* MicrophoneState::Disabled => "Do nothing"
on_disabled(state, amp, data, sample_rate, now1, now2) == state

\* The callback of an input stream.  now1 is the clock as read by the first
\* Instant::now() or by elapsed(), now2 as read by the second Instant::now()
\* of the activation branch.  The result is the new state, the new levels
\* and the chunks sent.
process_input_data_f32(channel_count, sample_rate, data, state, levels, now1, now2) ==
  LET amp == amplitude(data)
      lv  == push_level(levels, amp)
  IN
  CASE state.tag = "Disabled" ->
         [state |-> on_disabled(state, amp, data, sample_rate, now1, now2),
          levels |-> lv, sent |-> << >>]
    [] state.tag = "WaitingForVoiceActivity" ->
         IF IsActive(amp)
         THEN [state |-> start_recording(data, sample_rate, now1, now2),
               levels |-> lv, sent |-> << >>]
         ELSE [state |-> state, levels |-> lv, sent |-> << >>]
    [] state.tag = "VoiceActivated" ->
         IF IsActive(amp)
         THEN [state |-> continue_active(state.active, data, now1),
               levels |-> lv, sent |-> << >>]
         ELSE IF PauseDetected(now1 - state.active.last_activity)
              THEN [state |-> WaitingForVoiceActivity, levels |-> lv,
                    sent |-> << pause_chunk(state.active, channel_count, data, sample_rate) >>]
              ELSE [state |-> continue_silent(state.active, data),
                    levels |-> lv, sent |-> << >>]
    [] OTHER -> [state |-> state, levels |-> lv, sent |-> << >>]

\* Which reads of the clock the call makes after the first one.
ReadsClockTwice(state, data) ==
  state.tag = "WaitingForVoiceActivity" /\ IsActive(amplitude(data))

\* The stream callback built by start_microphone_streams for device d,
\* called by the driver with one buffer at instant now1.
Callback(d, in, now1, now2) ==
  LET r == process_input_data_f32(in.channels, in.sample_rate, in.data,
                                  micState[d], audio_levels[d], now1, now2)
  IN
  /\ nChunks < MaxChunks
  /\ micState' = [micState EXCEPT ![d] = r.state]
  /\ audio_levels' = [audio_levels EXCEPT ![d] = r.levels]
  /\ batchQ' = batchQ \o r.sent
  /\ clock' = IF ReadsClockTwice(micState[d], in.data) THEN now2 ELSE now1
  /\ nChunks' = nChunks + 1
  /\ trace' = [trace EXCEPT ![d] =
                 Append(@, [data |-> in.data, pre |-> micState[d].tag,
                            post |-> r.state.tag, sent |-> r.sent])]
  /\ last' = [dev |-> d, input |-> in, pre |-> micState[d], post |-> r.state,
              now |-> now1, sent |-> r.sent]
  /\ hist' = [hist EXCEPT !.emitted = @ \o Tagged(d, r.sent)]
  /\ UNCHANGED <<enabled, norm, wire, boot, rawQ, request, resultQ, logQ, loopVars, appVars>>

\* The monotonic clock: a read returns the previous read or a later instant.
Instants(from) == { t \in from .. MaxClock : TRUE }

\* The instants of the deliveries while the event loop runs: at once, or
\* after the longest wait.
UiInstants(from) == {from, MaxClock}

\* Two successive reads: the second is the first or the tick after it.
NextInstants(now1) == { t \in now1 .. now1 + 1 : t <= MaxClock }

\* The segmenter applied to any registered device's state.
SegmenterCall ==
  \E d \in Devices, in \in RawInputs :
    \E now1 \in Instants(clock) : \E now2 \in NextInstants(now1) :
      Callback(d, in, now1, now2)

initial_state_waiting(mic_config_enabled) == WaitingForVoiceActivity

initial_state_push_to_talk(mic_config_enabled) ==
  IF mic_config_enabled THEN WaitingForPushToTalk ELSE Disabled

\* initialize_microphones: one entry per device, its state from the
\* configuration (a device without an entry gets MicrophoneConfig::default()).
initial_state(mic_config_enabled) ==
  IF mic_config_enabled THEN WaitingForVoiceActivity ELSE Disabled

NoCall == [dev |-> "none", input |-> AudioChunk(<< >>, 0, 0), pre |-> Disabled,
           post |-> Disabled, now |-> 0, sent |-> << >>]

\* Nothing sent or received yet: per device the raw chunks published and
\* the raw chunks received by the loop, the batch chunks sent and the batch
\* chunks received by the loop, the devices whose callback panicked, the
\* consumer calls made for the latest transcription result, the events
\* run_ui and process_batch_audio wrote to the log file with error! and
\* warn!, the latest terminal event with the iteration that took it and the
\* match arm it ran, and the buffers of a burst scenario with the instant
\* each was processed at.
NoHistory == [published |-> [d \in Devices |-> << >>],
              consumed |-> [d \in Devices |-> << >>],
              emitted |-> << >>, taken |-> << >>, unwound |-> {},
              dispatch |-> << >>, events |-> {},
              key |-> [event |-> [kind |-> "none", code |-> ""], at |-> 0, ran |-> "none"],
              fed |-> << >>]

\* downmix is not being applied.
NotNormalizing == [stage |-> "idle"]

\* send_audio_for_transcription is not being called.
NoExchange == [stage |-> "idle"]

\* Startup is over.
NotBooting == [stage |-> "idle"]

None == [kind |-> "None"]
Some(v) == [kind |-> "Some", value |-> v]

\* impl Default for KeyConfig: the bindings handle_key_event reads.
KeyConfigDefault ==
  [quit |-> "q", help |-> "h", edit_config |-> "e", open_config |-> "b", open_logs |-> "b"]

\* The two bindings handle_key_event reads and config.rs does not declare.
LightsKeys == [authenticate_lights |-> "a", toggle_chat_lights |-> "l"]

\* config.key_config of the default configuration.
DefaultKeys ==
  [quit |-> KeyConfigDefault.quit, help |-> KeyConfigDefault.help,
   edit_config |-> KeyConfigDefault.edit_config,
   open_config |-> KeyConfigDefault.open_config,
   open_logs |-> KeyConfigDefault.open_logs,
   authenticate_lights |-> LightsKeys.authenticate_lights,
   toggle_chat_lights |-> LightsKeys.toggle_chat_lights]

\* The terminal when run_app calls run_ui: raw mode enabled, the alternate
\* screen entered, the Terminal stored in AppState.terminal.
InitialTerminal ==
  [slot |-> TRUE, raw_mode |-> TRUE, alternate_screen |-> TRUE,
   cursor_hidden |-> FALSE, run_app |-> "running"]

\* The state after AppState::new, the restore of the hue authentication in
\* run_app, and initialize_microphones, for a configuration that enables
\* the devices `on`.
InitWithKeys(on, keys) ==
  /\ enabled = [d \in Devices |-> d \in on]
  /\ micState = [d \in Devices |-> initial_state(enabled[d])]
  /\ audio_levels = [d \in Devices |-> InitLevels]
  /\ batchQ = << >>
  /\ clock = 0
  /\ nChunks = 0
  /\ trace = [d \in Devices |-> << >>]
  /\ last = NoCall
  /\ hist = NoHistory
  /\ norm = NotNormalizing
  /\ wire = NoExchange
  /\ boot = NotBooting
  /\ pc = "draw"
  /\ result = "none"
  /\ steps = 0
  /\ rawQ = << >>
  /\ request = None
  /\ resultQ = << >>
  /\ logQ = << >>
  /\ activity_log = << >>
  /\ transcription_callbacks = <<"WriteJsonLine">>
  /\ \E user \in {None, Some("user")}, ip \in {"", "bridge"} :
       /\ user # None => ip # ""
       /\ hue = [auth_state |-> IF user # None THEN "Authenticated" ELSE "Unauthenticated",
              username |-> user, bridge_ip |-> ip]
  /\ archive = << >>
  /\ term = InitialTerminal
  /\ key_config = keys

\* The same with the default key configuration.
InitWith(on) == InitWithKeys(on, DefaultKeys)

SegNext == SegmenterCall

\* The segmenter alone, applied to every device state and every input.
\* The application with micA enabled and micB disabled.
Init == InitWith({"micA"})

\* Every configuration of the devices; the bridge is not configured.
SegInit ==
  /\ \E on \in SUBSET Devices : InitWith(on)
  /\ hue.username = None
  /\ hue.bridge_ip = ""

SegSpec == SegInit /\ [][SegNext]_vars

\* ------------------------------------------------------- bursts of speech
MaxBurstChunks == 4      \* driver buffers delivered in a burst scenario
MaxBursts == 2           \* bursts the clock of a burst scenario has room for

BurstClock == MaxBursts * MaxClock

\* The buffers of one mono device: silence and two different active buffers.
BurstInputs ==
  UiInputs("micA") \cup {[data |-> <<-40>>, channels |-> 1, sample_rate |-> 16000]}

\* The stream callback of micA called by the driver with one buffer; the
\* buffer is recorded with the last instant the call read from the clock.
BurstCall ==
  \E in \in BurstInputs :
    \E now1 \in clock .. BurstClock : \E now2 \in {now1, now1 + 1} :
      LET d == "micA"
          r == process_input_data_f32(in.channels, in.sample_rate, in.data,
                                      micState[d], audio_levels[d], now1, now2)
          at == IF ReadsClockTwice(micState[d], in.data) THEN now2 ELSE now1
      IN
      /\ nChunks < MaxBurstChunks
      /\ at <= BurstClock
      /\ micState' = [micState EXCEPT ![d] = r.state]
      /\ audio_levels' = [audio_levels EXCEPT ![d] = r.levels]
      /\ batchQ' = batchQ \o r.sent
      /\ clock' = at
      /\ nChunks' = nChunks + 1
      /\ trace' = [trace EXCEPT ![d] =
                     Append(@, [data |-> in.data, pre |-> micState[d].tag,
                                post |-> r.state.tag, sent |-> r.sent])]
      /\ last' = [dev |-> d, input |-> in, pre |-> micState[d], post |-> r.state,
                  now |-> now1, sent |-> r.sent]
      /\ hist' = [hist EXCEPT !.emitted = @ \o Tagged(d, r.sent),
                              !.fed = Append(@, [data |-> in.data, at |-> at])]
      /\ UNCHANGED <<enabled, norm, wire, boot, rawQ, request, resultQ, logQ, loopVars, appVars>>

BurstNext == BurstCall

\* micA enabled and waiting for voice activity; the bridge is not configured.
BurstInit ==
  /\ InitWith({"micA"})
  /\ hue.username = None
  /\ hue.bridge_ip = ""

BurstSpec == BurstInit /\ [][BurstNext]_vars

\* ---------------------------------------------------- buffers without end
MaxAccumulated == 3      \* samples accumulated before the clock has to advance

\* The accumulator of a device, empty when no utterance is open.
accumulated(state) ==
  IF state.tag = "VoiceActivated" THEN state.active.data_so_far ELSE << >>

\* The stream callback of micA called by the driver with one buffer, in a
\* behaviour where buffers never stop arriving: the histories of buffers
\* are not kept.  The clock is the later of the reads the call makes; at
\* the end of its range every read returns the last instant.  Voice is not
\* heard so late that the pause after it would not fit in the range.
HangCallback(in) ==
  \E now1 \in {clock, clock + 1} : \E now2 \in {now1, now1 + 1} :
    LET d == "micA"
        r == process_input_data_f32(in.channels, in.sample_rate, in.data,
                                    micState[d], audio_levels[d], now1, now2)
        at == IF ReadsClockTwice(micState[d], in.data) THEN now2 ELSE now1
    IN
    /\ at <= BurstClock
    /\ IsActive(amplitude(in.data)) => at + HangSecs * TicksPerSecond < BurstClock
    /\ \/ at > clock
       \/ clock = BurstClock
       \/ Len(accumulated(micState[d])) < MaxAccumulated
    /\ micState' = [micState EXCEPT ![d] = r.state]
    /\ batchQ' = batchQ \o r.sent
    /\ clock' = at
    /\ last' = [dev |-> d, input |-> in, pre |-> micState[d], post |-> r.state,
                now |-> now1, sent |-> r.sent]
    /\ UNCHANGED <<enabled, audio_levels, nChunks, trace, hist, norm, wire, boot>>
    /\ UNCHANGED uiVars

HangActive ==
  \E in \in UiInputs("micA") : IsActive(amplitude(in.data)) /\ HangCallback(in)

HangSilent ==
  \E in \in UiInputs("micA") : ~IsActive(amplitude(in.data)) /\ HangCallback(in)

\* Time passes and the driver delivers nothing.
TimePasses ==
  /\ clock < BurstClock
  /\ clock' = clock + 1
  /\ UNCHANGED <<enabled, micState, audio_levels, batchQ, nChunks, trace, last, hist, norm, wire, boot>>
  /\ UNCHANGED uiVars

HangNext ==
  \/ HangActive
  \/ HangSilent
  \/ TimePasses

HangFairness_idle == WF_vars(TimePasses)

\* The driver of a running stream goes on delivering buffers; after the
\* voice has stopped they are silent ones.
HangFairness == WF_vars(HangSilent)

HangSpec == BurstInit /\ [][HangNext]_vars /\ HangFairness

\* ============================================ send_audio_for_transcription
\* Samples are thousandths of full scale here too; bytes are 0 .. 255.

MaxBody == 2             \* samples in a batch given to the transcription client

I16_MAX == 32767         \* i16::MAX
I16_MIN == -32768        \* i16::MIN

\* u32::to_le_bytes / u16::to_le_bytes: the n bytes of x, least significant first.
to_le_bytes(x, n) ==
  [i \in 1 .. n |-> (x \div (IF i = 1 THEN 1 ELSE IF i = 2 THEN 256
                             ELSE IF i = 3 THEN 65536 ELSE 16777216)) % 256]

\* `(sample * i16::MAX as f32) as i16`: the product truncated toward zero
\* and saturated to the range of i16.
as_i16(sample) ==
  LET v == sample * I16_MAX
      q == IF v >= 0 THEN v \div 1000 ELSE -((-v) \div 1000)
  IN IF q > I16_MAX THEN I16_MAX ELSE IF q < I16_MIN THEN I16_MIN ELSE q

\* hound writes an i16 as its two's complement, least significant byte first.
write_sample(value) == to_le_bytes((value + 65536) % 65536, 2)

\* The header hound writes for WavSpec {channels: 1, sample_rate: 44100,
\* bits_per_sample: 16, Int}: RIFF, 36 + data length, WAVE, fmt , 16, PCM,
\* 1 channel, 44100 Hz, 88200 bytes/s, block align 2, 16 bits, data, data
\* length.
WavHeader(data_len) ==
  <<82, 73, 70, 70>> \o to_le_bytes(36 + data_len, 4) \o <<87, 65, 86, 69>>
    \o <<102, 109, 116, 32>> \o to_le_bytes(16, 4) \o to_le_bytes(1, 2)
    \o to_le_bytes(1, 2) \o to_le_bytes(44100, 4) \o to_le_bytes(88200, 4)
    \o to_le_bytes(2, 2) \o to_le_bytes(16, 2)
    \o <<100, 97, 116, 97>> \o to_le_bytes(data_len, 4)

RECURSIVE wav_samples(_)
wav_samples(audio_data) ==
  IF audio_data = << >> THEN << >>
  ELSE write_sample(as_i16(Head(audio_data))) \o wav_samples(Tail(audio_data))

\* generate_wav_data
generate_wav_data(audio_data) ==
  WavHeader(2 * Len(audio_data)) \o wav_samples(audio_data)

\* What send_audio_for_transcription posts: the sample rate, the channel
\* count and the WAV data.
request_for(audio_data) ==
  [content_type |-> "audio/wav",
   body |-> to_le_bytes(audio_data.sample_rate, 4) \o to_le_bytes(audio_data.channels, 2)
              \o generate_wav_data(audio_data.data)]

\* The results the transcription service answers with.
TranscriptionResults ==
  { [segments |-> << >>, language |-> "en"],
    [segments |-> <<"one">>, language |-> "en"],
    [segments |-> <<"one", "two">>, language |-> "en"] }

Ok(v) == [tag |-> "Ok", value |-> v]
Err(context, cause) == [tag |-> "Err", context |-> context, cause |-> cause]

\* StatusCode::is_success
is_success_below_400(status) == status >= 200 /\ status < 400

is_success(status) == status >= 200 /\ status < 300

\* The bodies a service answers with: a transcription result, a JSON value
\* of another shape, bytes that are not JSON.
ResponseBodies ==
  { [json |-> TRUE, value |-> t] : t \in TranscriptionResults }
    \cup { [json |-> TRUE, value |-> [error |-> "busy"]], [json |-> FALSE] }

\* What the HTTP client comes back with: it cannot be built, the request
\* cannot be sent, or a response with a status and a body.
Responses ==
  { [kind |-> "build_failed"], [kind |-> "send_failed"] }
    \cup { [kind |-> "response", status |-> st, body |-> b] :
             st \in {200, 204, 302, 404, 500}, b \in ResponseBodies }

\* serde_json::from_value::<TranscriptionResult>: the value has both fields.
from_value(v) ==
  IF DOMAIN v = {"segments", "language"} THEN Ok(v) ELSE Err("", [serde |-> "data"])

\* send_audio_for_transcription from Client::builder() on.
transcription_outcome(response) ==
  CASE response.kind = "build_failed" -> Err("", [reqwest |-> "builder"])
    [] response.kind = "send_failed" ->
         Err("Failed to send transcription request", [reqwest |-> "request"])
    [] OTHER ->
         IF is_success(response.status)
         THEN IF ~response.body.json THEN Err("", [reqwest |-> "decode"])
              ELSE LET r == from_value(response.body.value) IN
                   IF r.tag = "Ok" THEN r
                   ELSE Err("Failed to parse transcription response", r.cause)
         ELSE Err("Transcription API error", [status |-> response.status])

\* send_audio_for_transcription
send_audio_for_transcription(audio_data, response) ==
  [request |-> IF response.kind = "build_failed" THEN None ELSE Some(request_for(audio_data)),
   result |-> transcription_outcome(response)]

\* The text of an error, as `{}` formats it: the outermost context, or the
\* message of the underlying error.  The status of a rejected request is
\* part of the text.
error_text(e) ==
  IF e.context # "" THEN e.context
  ELSE IF e.cause = [reqwest |-> "decode"] THEN "error decoding response body"
  ELSE IF e.cause = [reqwest |-> "builder"] THEN "builder error"
  ELSE "invalid type"

\* The batches given to the client: up to MaxBody samples, in the two stream
\* formats.
BodySamples == {-1000, -500, 0, 500, 1000}

RECURSIVE SeqsUpTo(_, _)
SeqsUpTo(S, n) ==
  IF n = 0 THEN {<< >>}
  ELSE LET shorter == SeqsUpTo(S, n - 1)
       IN shorter \cup { Append(q, x) : q \in shorter, x \in S }

ClientInputs ==
  { AudioChunk(data, DeviceFormat(d).channels, DeviceFormat(d).sample_rate) :
      data \in SeqsUpTo(BodySamples, MaxBody), d \in Devices }

\* One call of send_audio_for_transcription.
Send ==
  /\ wire.stage = "call"
  /\ \E response \in Responses :
       LET r == send_audio_for_transcription(wire.audio_data, response) IN
       wire' = [stage |-> "returned", audio_data |-> wire.audio_data,
                response |-> response, request |-> r.request, result |-> r.result]
  /\ UNCHANGED <<enabled, micState, audio_levels, batchQ, clock, nChunks, trace, last, hist, norm, boot>>
  /\ UNCHANGED uiVars

ClientNext == Send

\* The transcription client alone, called with every batch of ClientInputs.
ClientInit ==
  /\ \E c \in ClientInputs : wire = [stage |-> "call", audio_data |-> c]
  /\ boot = NotBooting
  /\ norm = NotNormalizing
  /\ enabled = [d \in Devices |-> FALSE]
  /\ micState = [d \in Devices |-> initial_state(enabled[d])]
  /\ audio_levels = [d \in Devices |-> InitLevels]
  /\ batchQ = << >>
  /\ clock = 0
  /\ nChunks = 0
  /\ trace = [d \in Devices |-> << >>]
  /\ last = NoCall
  /\ hist = NoHistory
  /\ pc = "draw"
  /\ result = "none"
  /\ steps = 0
  /\ rawQ = << >>
  /\ request = None
  /\ resultQ = << >>
  /\ logQ = << >>
  /\ activity_log = << >>
  /\ transcription_callbacks = <<"WriteJsonLine">>
  /\ hue = [auth_state |-> "Unauthenticated", username |-> None, bridge_ip |-> ""]
  /\ archive = << >>
  /\ term = InitialTerminal
  /\ key_config = DefaultKeys

ClientSpec == ClientInit /\ [][ClientNext]_vars

\* ============================================================== startup
MaxHostDevices == 2      \* input devices of the host
MaxBootChunks == 2       \* driver buffers delivered to the streams started

\* What cpal reports for one input device: its name, or None when name()
\* fails, and the call of stream creation that fails for it, if any.  The
\* three cases of SampleFormat are all matched, so the sample format of a
\* device is not among the reasons for a stream not to start.
DeviceFaults == {"none", "default_input_config", "build_input_stream", "play"}

HostDevices ==
  [name : {Some("micA"), Some("micB"), None}, fault : DeviceFaults]

\* cpal::default_host(): whether input_devices() succeeds, and the devices
\* in enumeration order.
Hosts ==
  { [input_devices |-> "Ok", devices |-> ds] : ds \in SeqsUpTo(HostDevices, MaxHostDevices) }
    \cup { [input_devices |-> "Err", devices |-> << >>] }

\* MicrophoneConfig::default()
MicrophoneConfigDefault == [enabled |-> TRUE]

\* format!("Unknown-{i}")
Unknown(i) == "Unknown-" \o ToString(i)

\* config.microphones: entries for some of the names.
ConfigKeys == {"micA", "micB", Unknown(0)}

Configs ==
  UNION { [keys -> [enabled : BOOLEAN]] : keys \in SUBSET ConfigKeys }

\* device.name().unwrap_or_default()
unwrap_or_default(name) == IF name = None THEN "" ELSE name.value

\* device.name().unwrap_or_else(|_| format!("Unknown-{i}"))
unwrap_or_else_unknown(name, i) == IF name = None THEN Unknown(i) ELSE name.value

\* list_microphones: the names in host order; it panics when the devices
\* cannot be enumerated.
list_microphones(host) ==
  IF host.input_devices = "Err" THEN [kind |-> "panicked"]
  ELSE Some([k \in 1 .. Len(host.devices) |-> unwrap_or_default(host.devices[k].name)])

\* config.microphones.get(&name).cloned().unwrap_or_else(MicrophoneConfig::default)
mic_config_for(config, name) ==
  IF name \in DOMAIN config THEN config[name] ELSE MicrophoneConfigDefault

\* The name initialize_microphones gives the device at position k (the
\* index of enumerate() starts at 0).
registry_name(host, k) == unwrap_or_else_unknown(host.devices[k].name, k - 1)

\* initialize_microphones: one Microphone per name, that of the last device
\* inserted under the name, without a stream.
initialize_microphones(config, host) ==
  LET names == { registry_name(host, k) : k \in 1 .. Len(host.devices) } IN
  [ n \in names |->
      LET mic_config == mic_config_for(config, n) IN
      [name |-> n, config |-> mic_config,
       state |-> initial_state(mic_config.enabled), stream |-> None] ]

\* .find(|d| d.name().unwrap_or_default() == mic.name): the first device
\* whose name, or "" when it cannot be read, is the name of the Microphone.
find(host, name) ==
  LET found == { k \in 1 .. Len(host.devices) :
                   unwrap_or_default(host.devices[k].name) = name } IN
  IF found = {} THEN None
  ELSE Some(CHOOSE k \in found : \A j \in found : k <= j)

\* The body of the loop of start_microphone_streams for one Microphone:
\* the Microphone afterwards, or the panic of expect() / unwrap().
start_stream(host, mic) ==
  IF ~mic.config.enabled THEN Ok(mic)
  ELSE IF host.input_devices = "Err" THEN Err("unwrap", "input_devices")
  ELSE LET device == find(host, mic.name) IN
       IF device = None THEN Err("expect", "Microphone not found")
       ELSE LET fault == host.devices[device.value].fault IN
            CASE fault = "default_input_config" -> Err("unwrap", "default_input_config")
              [] fault = "build_input_stream" -> Err("expect", "Failed to build input stream")
              [] fault = "play" -> Err("expect", "Failed to start input stream")
              [] OTHER -> Ok([mic EXCEPT !.stream = Some(device.value)])

\* list_microphones()
ListMicrophones ==
  /\ boot.stage # "idle"
  /\ boot.listing = None
  /\ boot' = [boot EXCEPT !.listing = list_microphones(boot.host)]
  /\ UNCHANGED <<enabled, micState, audio_levels, batchQ, clock, nChunks, trace, last, hist, norm, wire>>
  /\ UNCHANGED uiVars

\* initialize_microphones(&config)
InitializeMicrophones ==
  /\ boot.stage = "new"
  /\ boot' = IF boot.host.input_devices = "Err"
             THEN [boot EXCEPT !.stage = "panicked"]
             ELSE [boot EXCEPT !.stage = "initialized",
                               !.microphones = initialize_microphones(boot.config, boot.host)]
  /\ UNCHANGED <<enabled, micState, audio_levels, batchQ, clock, nChunks, trace, last, hist, norm, wire>>
  /\ UNCHANGED uiVars

\* One iteration of `for mic in microphones.values_mut()`; the order of a
\* HashMap's values is not determined.
StartStream ==
  /\ boot.stage = "initialized"
  /\ \E n \in DOMAIN boot.microphones \ boot.visited :
       LET r == start_stream(boot.host, boot.microphones[n]) IN
       boot' = IF r.tag = "Ok"
               THEN [boot EXCEPT !.microphones[n] = r.value, !.visited = @ \cup {n}]
               ELSE [boot EXCEPT !.stage = "panicked", !.panic = Some(r.cause),
                                 !.visited = @ \cup {n}]
  /\ UNCHANGED <<enabled, micState, audio_levels, batchQ, clock, nChunks, trace, last, hist, norm, wire>>
  /\ UNCHANGED uiVars

\* start_microphone_streams returns: the application goes on to the event loop.
StartReturns ==
  /\ boot.stage = "initialized"
  /\ boot.visited = DOMAIN boot.microphones
  /\ boot' = [boot EXCEPT !.stage = "running"]
  /\ UNCHANGED <<enabled, micState, audio_levels, batchQ, clock, nChunks, trace, last, hist, norm, wire>>
  /\ UNCHANGED uiVars

\* The callback of a stream that was started, called by the driver with
\* one buffer.
BootCallback ==
  /\ boot.stage \in {"initialized", "running"}
  /\ nChunks < MaxBootChunks
  /\ \E n \in DOMAIN boot.microphones : \E in \in UiInputs("micA") :
       \E now1 \in Instants(clock) : \E now2 \in NextInstants(now1) :
         LET mic == boot.microphones[n]
             r == process_input_data_f32(in.channels, in.sample_rate, in.data,
                                         mic.state, InitLevels, now1, now2)
         IN
         /\ mic.stream # None
         /\ boot' = [boot EXCEPT !.microphones[n].state = r.state,
                                 !.sent = @ \o r.sent]
         /\ clock' = IF ReadsClockTwice(mic.state, in.data) THEN now2 ELSE now1
  /\ nChunks' = nChunks + 1
  /\ UNCHANGED <<enabled, micState, audio_levels, batchQ, trace, last, hist, norm, wire>>
  /\ UNCHANGED uiVars

StartupNext ==
  \/ ListMicrophones
  \/ InitializeMicrophones
  \/ StartStream
  \/ StartReturns
  \/ BootCallback

\* run_app before initialize_microphones: any host and any configuration,
\* nothing listed, no Microphone, nothing sent by a stream.
StartupInit ==
  /\ \E host \in Hosts, config \in Configs :
       boot = [stage |-> "new", host |-> host, config |-> config,
               microphones |-> << >>, visited |-> {}, listing |-> None,
               panic |-> None, sent |-> << >>]
  /\ enabled = [d \in Devices |-> FALSE]
  /\ micState = [d \in Devices |-> Disabled]
  /\ audio_levels = [d \in Devices |-> InitLevels]
  /\ batchQ = << >>
  /\ clock = 0
  /\ nChunks = 0
  /\ trace = [d \in Devices |-> << >>]
  /\ last = NoCall
  /\ hist = NoHistory
  /\ norm = NotNormalizing
  /\ wire = NoExchange
  /\ pc = "draw"
  /\ result = "none"
  /\ steps = 0
  /\ rawQ = << >>
  /\ request = None
  /\ resultQ = << >>
  /\ logQ = << >>
  /\ activity_log = << >>
  /\ transcription_callbacks = <<"WriteJsonLine">>
  /\ hue = [auth_state |-> "Unauthenticated", username |-> None, bridge_ip |-> ""]
  /\ archive = << >>
  /\ term = InitialTerminal
  /\ key_config = DefaultKeys

StartupSpec == StartupInit /\ [][StartupNext]_vars

\* ================================================================ ui.rs
Log(msg, arg) == [msg |-> msg, arg |-> arg]

\* error!(..) and warn!(..): an event of the tracing subscriber, which
\* writes it to the log file.
Event(level, msg) == [level |-> level, msg |-> msg]

push_activity_log_lost(q, entry) == q

\* AppState::push_activity_log: a send on the unbounded log channel; the
\* receiver lives in the same AppState, so the send cannot fail.
push_activity_log(q, entry) == Append(q, entry)

\* The characters of the keys pressed.
KeyChars == {"q", "h", "e", "b", "a", "l", "x"}

\* What crossterm_event_stream.next() yields.
KeyboardEvents ==
  { [kind |-> "press", code |-> c] : c \in KeyChars }
    \cup { [kind |-> "release", code |-> "q"], [kind |-> "resize", code |-> ""],
           [kind |-> "error", code |-> ""], [kind |-> "end", code |-> ""] }

\* What the Hue bridge answers to the registration request.
HueResponses ==
  {"transport_error", "not_array", "empty", "success", "success_no_username",
   "link_button", "other_error", "unknown"}

binding_or_help(c) ==
  IF c = key_config.quit THEN "quit"
  ELSE IF c = key_config.edit_config THEN "edit_config"
  ELSE IF c = key_config.open_config THEN "open_config"
  ELSE IF c = key_config.authenticate_lights THEN "authenticate_lights"
  ELSE IF c = key_config.toggle_chat_lights THEN "toggle_chat_lights"
  ELSE "help"

binding_help_first(c) ==
  IF c = key_config.help THEN "help"
  ELSE IF c = key_config.quit THEN "quit"
  ELSE IF c = key_config.edit_config THEN "edit_config"
  ELSE IF c = key_config.open_config THEN "open_config"
  ELSE IF c = key_config.open_logs THEN "open_logs"
  ELSE IF c = key_config.authenticate_lights THEN "authenticate_lights"
  ELSE IF c = key_config.toggle_chat_lights THEN "toggle_chat_lights"
  ELSE "none"

\* The match arms of handle_key_event, first match first.
binding(c) ==
  IF c = key_config.quit THEN "quit"
  ELSE IF c = key_config.help THEN "help"
  ELSE IF c = key_config.edit_config THEN "edit_config"
  ELSE IF c = key_config.open_config THEN "open_config"
  ELSE IF c = key_config.open_logs THEN "open_logs"
  ELSE IF c = key_config.authenticate_lights THEN "authenticate_lights"
  ELSE IF c = key_config.toggle_chat_lights THEN "toggle_chat_lights"
  ELSE "none"

\* run_ui leaves the loop with a value.
Return(value) == pc' = "returned" /\ result' = value

\* run_ui goes on to its next iteration.
Continue == pc' = "draw" /\ result' = result

\* The `?` after a fallible call in run_ui: an Err leaves the loop.
propagate(ok) == IF ok THEN Continue ELSE Return("Err")

authenticate_lights_again(response, save_ok) ==
  IF hue.bridge_ip = ""
  THEN /\ logQ' = push_activity_log(logQ, Log("Hue bridge IP not set in config.", ""))
       /\ hue' = hue
       /\ propagate(TRUE)
  ELSE CASE response \in {"transport_error", "not_array", "empty", "success_no_username"} ->
              /\ UNCHANGED <<logQ, hue>>
              /\ propagate(FALSE)
         [] response = "success" ->
              /\ hue' = [hue EXCEPT !.username = Some("user"), !.auth_state = "Authenticated"]
              /\ logQ' = IF save_ok
                         THEN push_activity_log(logQ, Log("Successfully authenticated with Hue bridge.", ""))
                         ELSE logQ
              /\ propagate(save_ok)
         [] response = "link_button" ->
              /\ hue' = [hue EXCEPT !.auth_state = "AwaitingButtonPress"]
              /\ logQ' = push_activity_log(logQ, Log("Please press the link button on the Hue bridge.", ""))
              /\ propagate(TRUE)
         [] response = "other_error" ->
              /\ hue' = hue
              /\ logQ' = push_activity_log(logQ, Log("Error authenticating with Hue bridge", ""))
              /\ propagate(TRUE)
         [] OTHER ->
              /\ hue' = hue
              /\ logQ' = push_activity_log(logQ, Log("Unknown response from Hue bridge.", ""))
              /\ propagate(TRUE)

\* authenticate_lights
authenticate_lights(response, save_ok) ==
  IF hue.auth_state = "Authenticated"
  THEN /\ logQ' = push_activity_log(logQ, Log("Already authenticated with Hue bridge.", ""))
       /\ hue' = hue
       /\ propagate(TRUE)
  ELSE IF hue.bridge_ip = ""
  THEN /\ logQ' = push_activity_log(logQ, Log("Hue bridge IP not set in config.", ""))
       /\ hue' = hue
       /\ propagate(TRUE)
  ELSE CASE response \in {"transport_error", "not_array", "empty", "success_no_username"} ->
              /\ UNCHANGED <<logQ, hue>>
              /\ propagate(FALSE)
         [] response = "success" ->
              /\ hue' = [hue EXCEPT !.username = Some("user"), !.auth_state = "Authenticated"]
              /\ logQ' = IF save_ok
                         THEN push_activity_log(logQ, Log("Successfully authenticated with Hue bridge.", ""))
                         ELSE logQ
              /\ propagate(save_ok)
         [] response = "link_button" ->
              /\ hue' = [hue EXCEPT !.auth_state = "AwaitingButtonPress"]
              /\ logQ' = push_activity_log(logQ, Log("Please press the link button on the Hue bridge.", ""))
              /\ propagate(TRUE)
         [] response = "other_error" ->
              /\ hue' = hue
              /\ logQ' = push_activity_log(logQ, Log("Error authenticating with Hue bridge", ""))
              /\ propagate(TRUE)
         [] OTHER ->
              /\ hue' = hue
              /\ logQ' = push_activity_log(logQ, Log("Unknown response from Hue bridge.", ""))
              /\ propagate(TRUE)

\* toggle_chat_lights_callback
toggle_chat_lights_callback ==
  IF \E k \in 1 .. Len(transcription_callbacks) : transcription_callbacks[k] = "ChatLights"
  THEN /\ transcription_callbacks' = SelectSeq(transcription_callbacks, LAMBDA c : c # "ChatLights")
       /\ logQ' = push_activity_log(logQ, Log("Disabled ChatLights callback.", ""))
  ELSE /\ transcription_callbacks' = Append(transcription_callbacks, "ChatLights")
       /\ logQ' = push_activity_log(logQ, Log("Enabled ChatLights callback.", ""))

\* edit_config: how it returns and the terminal modes it leaves.  It
\* disables raw mode, leaves the alternate screen, runs the editor, enters
\* the alternate screen, enables raw mode and clears; each step can fail.
edit_config ==
  { [ok |-> TRUE, raw_mode |-> TRUE, alternate_screen |-> TRUE],
    [ok |-> FALSE, raw_mode |-> term.raw_mode, alternate_screen |-> term.alternate_screen],
    [ok |-> FALSE, raw_mode |-> FALSE, alternate_screen |-> term.alternate_screen],
    [ok |-> FALSE, raw_mode |-> FALSE, alternate_screen |-> FALSE],
    [ok |-> FALSE, raw_mode |-> FALSE, alternate_screen |-> TRUE],
    [ok |-> FALSE, raw_mode |-> TRUE, alternate_screen |-> TRUE] }

\* handle_key_event, for a key press.  The editor commands and the bridge
\* answer as their environment decides.
handle_key_event(code) ==
  LET b == binding(code) IN
  CASE b = "quit" ->
         /\ Return("Ok")
         /\ UNCHANGED <<logQ, hue, transcription_callbacks, term>>
    [] b = "help" ->
         /\ logQ' = push_activity_log(logQ, Log("Help requested, TODO: implement this lol", ""))
         /\ Continue
         /\ UNCHANGED <<hue, transcription_callbacks, term>>
    [] b = "edit_config" ->
         /\ \E o \in edit_config :
              /\ propagate(o.ok)
              /\ term' = [term EXCEPT !.raw_mode = o.raw_mode,
                                      !.alternate_screen = o.alternate_screen]
         /\ UNCHANGED <<logQ, hue, transcription_callbacks>>
    [] b \in {"open_config", "open_logs"} ->
         /\ \E ok \in BOOLEAN : propagate(ok)
         /\ UNCHANGED <<logQ, hue, transcription_callbacks, term>>
    [] b = "authenticate_lights" ->
         /\ \E response \in HueResponses, save_ok \in BOOLEAN :
              authenticate_lights(response, save_ok)
         /\ UNCHANGED <<transcription_callbacks, term>>
    [] b = "toggle_chat_lights" ->
         /\ toggle_chat_lights_callback
         /\ Continue
         /\ UNCHANGED <<hue, term>>
    [] OTHER ->
         /\ Continue
         /\ UNCHANGED <<logQ, hue, transcription_callbacks, term>>

\* `let mut terminal = app_state.terminal.take().unwrap();
\*  terminal.draw(..)?; app_state.terminal = Some(terminal);`: a frame is
\* drawn with the cursor hidden and the Terminal is put back; on an error
\* run_ui returns while the Terminal, taken out of AppState, is dropped.
draw(ok) ==
  IF ok
  THEN /\ pc' = "select"
       /\ result' = result
       /\ term' = [term EXCEPT !.cursor_hidden = TRUE]
  ELSE /\ Return("Err")
       /\ term' = [term EXCEPT !.slot = FALSE]

\* The top of the loop: terminal.draw(...)?
Draw ==
  /\ pc = "draw"
  /\ steps < MaxLoopSteps
  /\ steps' = steps + 1
  /\ \E ok \in BOOLEAN : draw(ok)
  /\ UNCHANGED <<segVars, chanVars, activity_log, transcription_callbacks, hue, archive, key_config>>

\* select!: _ = delay
OnTick ==
  /\ pc = "select"
  /\ Continue
  /\ UNCHANGED <<segVars, steps, chanVars, appVars>>

\* select!: maybe_event = crossterm_event
OnKeyboardEvent ==
  /\ pc = "select"
  /\ \E ev \in KeyboardEvents :
       CASE ev.kind = "press" ->
              /\ handle_key_event(ev.code)
              /\ hist' = [hist EXCEPT !.key = [event |-> ev, at |-> steps, ran |-> binding(ev.code)]]
         [] ev.kind = "error" ->
              /\ logQ' = push_activity_log(logQ, Log("Error reading event", ""))
              /\ hist' = [hist EXCEPT !.events = @ \cup {Event("error", "Error reading event")},
                                      !.key = [event |-> ev, at |-> steps, ran |-> "none"]]
              /\ Continue
              /\ UNCHANGED <<hue, transcription_callbacks, term>>
         [] OTHER ->
              /\ Continue
              /\ hist' = [hist EXCEPT !.key = [event |-> ev, at |-> steps, ran |-> "none"]]
              /\ UNCHANGED <<logQ, hue, transcription_callbacks, term>>
  /\ UNCHANGED <<enabled, micState, audio_levels, batchQ, clock, nChunks, trace, last, norm, wire, boot>>
  /\ UNCHANGED <<steps, rawQ, request, resultQ, activity_log, archive, key_config>>

\* select!: Some(log) = app_state.log_receiver.recv()
OnLog ==
  /\ pc = "select"
  /\ logQ # << >>
  /\ activity_log' = Append(activity_log, Head(logQ))
  /\ logQ' = Tail(logQ)
  /\ Continue
  /\ UNCHANGED <<segVars, steps, rawQ, request, resultQ, transcription_callbacks, hue, archive, term, key_config>>

\* What handle_hue_llm_voice_commands does for one segment: nothing to
\* report ("ok"), a light command sent and reported ("sent"), or an error.
ConsumerOutcomes == {"ok", "sent", "err"}

RECURSIVE dispatch_segments_abort(_, _, _, _)
dispatch_segments_abort(q, segments, chat_light, outcome) ==
  IF segments = << >> THEN q
  ELSE IF ~chat_light \/ outcome[1] = "ok"
  THEN dispatch_segments_abort(q, Tail(segments), chat_light, Tail(outcome))
  ELSE IF outcome[1] = "sent"
  THEN dispatch_segments_abort(push_activity_log(q, Log("Sent light command", Head(segments))),
                               Tail(segments), chat_light, Tail(outcome))
  ELSE push_activity_log(q, Log("Error processing ChatLights", Head(segments)))

RECURSIVE dispatch_segments(_, _, _, _)
dispatch_segments(q, segments, chat_light, outcome) ==
  IF segments = << >> THEN q
  ELSE LET q1 == IF ~chat_light \/ outcome[1] = "ok" THEN q
                 ELSE IF outcome[1] = "sent"
                 THEN push_activity_log(q, Log("Sent light command", Head(segments)))
                 ELSE push_activity_log(q, Log("Error processing ChatLights", Head(segments)))
       IN dispatch_segments(q1, Tail(segments), chat_light, Tail(outcome))

\* transcription_callbacks.contains(&TranscriptionCallback::ChatLights)
contains_ChatLights(callbacks) ==
  \E k \in 1 .. Len(callbacks) : callbacks[k] = "ChatLights"

\* The calls of handle_hue_llm_voice_commands made for a result, in order.
consumer_calls(transcription, chat_light, outcome) ==
  IF chat_light
  THEN [i \in 1 .. Len(transcription.segments) |->
          [segment |-> transcription.segments[i], outcome |-> outcome[i]]]
  ELSE << >>

\* handle_transcription_result
handle_transcription_result(transcription, outcome) ==
  LET chat_light == contains_ChatLights(transcription_callbacks)
  IN /\ logQ' = dispatch_segments(logQ, transcription.segments, chat_light, outcome)
     /\ hist' = [hist EXCEPT !.dispatch = consumer_calls(transcription, chat_light, outcome)]

\* select!: Some(transcription) = app_state.transcription_receiver.recv()
OnTranscription ==
  /\ pc = "select"
  /\ resultQ # << >>
  /\ \E outcome \in [1 .. Len(Head(resultQ).segments) -> ConsumerOutcomes] :
       handle_transcription_result(Head(resultQ), outcome)
  /\ resultQ' = Tail(resultQ)
  /\ propagate(TRUE)
  /\ UNCHANGED <<enabled, micState, audio_levels, batchQ, clock, nChunks, trace, last, norm, wire, boot>>
  /\ UNCHANGED <<steps, rawQ, request, appVars>>

\* The capture callback installed by hook_microphones (which is not among
\* the sources): it publishes the buffer, tagged with the device name, on
\* the raw-chunk channel.
PublishRawChunk ==
  /\ pc # "returned"
  /\ nChunks < MaxDelivered
  /\ \E d \in Devices : \E in \in UiInputs(d) :
       LET chunk == [mic_name |-> d, data |-> in.data,
                     channels |-> in.channels, sample_rate |-> in.sample_rate]
       IN /\ enabled[d]
          /\ rawQ' = Append(rawQ, chunk)
          /\ hist' = [hist EXCEPT !.published[d] = Append(@, chunk)]
  /\ nChunks' = nChunks + 1
  /\ UNCHANGED <<enabled, micState, audio_levels, batchQ, clock, trace, last, norm, wire, boot>>
  /\ UNCHANGED <<loopVars, request, resultQ, logQ, appVars>>

\* process_raw_audio (not among the sources), as the segmenter is specified:
\* an empty chunk is discarded, one `now` per chunk, the batch chunk carries
\* the device name.
process_raw_audio(chunk, state, now) ==
  IF Len(chunk.data) = 0 THEN [state |-> state, sent |-> << >>]
  ELSE
  LET active == IsActive(amplitude(chunk.data)) IN
  CASE state.tag = "WaitingForVoiceActivity" ->
         IF active
         THEN [state |-> VoiceActivated(ActiveMicrophoneState(now, now, chunk.data, chunk.sample_rate)),
               sent |-> << >>]
         ELSE [state |-> state, sent |-> << >>]
    [] state.tag = "VoiceActivated" ->
         IF active
         THEN [state |-> VoiceActivated([state.active EXCEPT !.last_activity = now,
                                                             !.data_so_far = @ \o chunk.data]),
               sent |-> << >>]
         ELSE IF now - state.active.last_activity > HangSecs * TicksPerSecond
              THEN [state |-> WaitingForVoiceActivity,
                    sent |-> << [mic_name |-> chunk.mic_name,
                                 data |-> state.active.data_so_far,
                                 channels |-> chunk.channels,
                                 sample_rate |-> state.active.sample_rate] >>]
              ELSE [state |-> VoiceActivated([state.active EXCEPT !.data_so_far = @ \o chunk.data]),
                    sent |-> << >>]
    [] OTHER -> [state |-> state, sent |-> << >>]

recv_drop(q) == [value |-> Head(q), rest |-> << >>]

recv_newest(q) == [value |-> q[Len(q)], rest |-> SubSeq(q, 1, Len(q) - 1)]

\* UnboundedReceiver::recv on a channel that holds q: the oldest message,
\* and what stays in the channel.
recv(q) == [value |-> Head(q), rest |-> Tail(q)]

get_mut_any(name) == IF name \in DOMAIN micState THEN Some(name) ELSE Some("micA")

\* app_state.microphones.get_mut(&chunk.mic_name): the registry has one
\* entry per device name.
get_mut(name) == IF name \in DOMAIN micState THEN Some(name) ELSE None

\* select!: Some(chunk) = raw_audio_chunk
OnRawChunk ==
  /\ pc = "select"
  /\ rawQ # << >>
  /\ \E now \in UiInstants(clock) :
     LET chunk == recv(rawQ).value
         mic == get_mut(chunk.mic_name)
     IN
     IF mic # None
     THEN LET d == mic.value
              r == process_raw_audio(chunk, micState[d], now)
          IN /\ clock' = now
             /\ micState' = [micState EXCEPT ![d] = r.state]
             /\ batchQ' = batchQ \o r.sent
             /\ trace' = [trace EXCEPT ![d] =
                            Append(@, [data |-> chunk.data, pre |-> micState[d].tag,
                                       post |-> r.state.tag, sent |-> r.sent])]
             /\ last' = [dev |-> d,
                         input |-> AudioChunk(chunk.data, chunk.channels, chunk.sample_rate),
                         pre |-> micState[d], post |-> r.state,
                         now |-> now, sent |-> r.sent]
             /\ hist' = [hist EXCEPT !.consumed[d] = Append(@, chunk),
                                     !.emitted = @ \o Tagged(d, r.sent)]
     ELSE /\ hist' = [hist EXCEPT !.events =
                        @ \cup {Event("warn", "Received audio chunk for unknown mic")}]
          /\ UNCHANGED <<clock, micState, batchQ, trace, last>>
  /\ rawQ' = recv(rawQ).rest
  /\ Continue
  /\ UNCHANGED <<enabled, audio_levels, nChunks, norm, wire, boot, steps, request, resultQ, logQ, appVars>>

OnBatchChunk_spawned ==
  /\ pc \in {"select", "transcribing"}
  /\ batchQ # << >>
  /\ request' = Some(recv(batchQ).value)
  /\ batchQ' = recv(batchQ).rest
  /\ hist' = [hist EXCEPT !.taken = Append(@, recv(batchQ).value)]
  /\ pc' = "transcribing"
  /\ UNCHANGED <<enabled, micState, audio_levels, clock, nChunks, trace, last, norm, wire, boot>>
  /\ UNCHANGED <<result, steps, rawQ, resultQ, logQ, appVars>>

\* select!: Some(chunk) = batch_audio_chunk; process_batch_audio up to the
\* await of send_audio_for_transcription.
OnBatchChunk ==
  /\ pc = "select"
  /\ batchQ # << >>
  /\ request' = Some(recv(batchQ).value)
  /\ batchQ' = recv(batchQ).rest
  /\ hist' = [hist EXCEPT !.taken = Append(@, recv(batchQ).value)]
  /\ pc' = "transcribing"
  /\ UNCHANGED <<enabled, micState, audio_levels, clock, nChunks, trace, last, norm, wire, boot>>
  /\ UNCHANGED <<result, steps, rawQ, resultQ, logQ, appVars>>

RECURSIVE heard_reversed(_, _)
heard_reversed(q, segments) ==
  IF segments = << >> THEN q
  ELSE Append(heard_reversed(q, Tail(segments)), Log("Heard", Head(segments)))

RECURSIVE heard(_, _)
heard(q, segments) ==
  IF segments = << >> THEN q
  ELSE heard(push_activity_log(q, Log("Heard", Head(segments))), Tail(segments))

\* The answers to the requests of the running application: the request
\* cannot be sent, is rejected, is answered with bytes that are not JSON,
\* or is answered with a result.
AppResponses ==
  { [kind |-> "send_failed"],
    [kind |-> "response", status |-> 500, body |-> [json |-> TRUE, value |-> [error |-> "busy"]]],
    [kind |-> "response", status |-> 200, body |-> [json |-> FALSE]] }
    \cup { [kind |-> "response", status |-> 200, body |-> [json |-> TRUE, value |-> t]] :
             t \in TranscriptionResults }

\* process_batch_audio from the completion of the request on, and the
\* `if let Err(e)` around it in run_ui.
TranscriptionReturns ==
  /\ pc = "transcribing"
  /\ \E response \in AppResponses :
       LET r == send_audio_for_transcription(request.value, response) IN
       IF r.result.tag = "Ok"
       THEN \E save_ok \in BOOLEAN :
              /\ archive' = IF save_ok THEN Append(archive, r.result.value) ELSE archive
              /\ logQ' = heard(logQ, r.result.value.segments)
              /\ resultQ' = Append(resultQ, r.result.value)
              /\ wire' = [stage |-> "returned", audio_data |-> request.value,
                          response |-> response, request |-> r.request,
                          result |-> r.result, saved |-> save_ok]
              /\ hist' = IF save_ok THEN hist
                         ELSE [hist EXCEPT !.events =
                                 @ \cup {Event("error", "Failed to save transcription")}]
       ELSE /\ logQ' = push_activity_log(logQ, Log("Transcription failed", error_text(r.result)))
            /\ wire' = [stage |-> "returned", audio_data |-> request.value,
                        response |-> response, request |-> r.request,
                        result |-> r.result, saved |-> FALSE]
            /\ hist' = [hist EXCEPT !.events = @ \cup {Event("error", "Transcription failed")}]
            /\ UNCHANGED <<archive, resultQ>>
  /\ request' = None
  /\ Continue
  /\ UNCHANGED <<enabled, micState, audio_levels, batchQ, clock, nChunks, trace, last, norm, boot>>
  /\ UNCHANGED <<steps, rawQ, activity_log, transcription_callbacks, hue, term, key_config>>

\* The driver calls the stream callback of a device whose stream was started.
StreamCallback ==
  /\ pc # "returned"
  /\ nChunks < MaxDelivered
  /\ \E d \in Devices : \E in \in UiInputs(d) :
       \E now1 \in UiInstants(clock) : \E now2 \in NextInstants(now1) :
         enabled[d] /\ Callback(d, in, now1, now2)

\* The driver calls the stream callback of device d after run_ui has
\* returned and run_app has dropped the receiving end of the channel, the
\* stream being dropped after it.  The levels are pushed; then
\* state.lock().unwrap() panics if an earlier panic of this callback has
\* poisoned the mutex, and send(..).unwrap() panics when the utterance
\* closes, before the state is reset.
TeardownCallback ==
  /\ pc = "returned"
  /\ nChunks < MaxDelivered
  /\ \E d \in Devices : \E in \in UiInputs(d) : \E now1 \in UiInstants(clock) :
       LET r == process_input_data_f32(in.channels, in.sample_rate, in.data,
                                       micState[d], audio_levels[d], now1, now1)
           panics == d \in hist.unwound \/ r.sent # << >>
           post == IF panics THEN micState[d] ELSE r.state
       IN
       /\ enabled[d]
       /\ audio_levels' = [audio_levels EXCEPT ![d] = r.levels]
       /\ micState' = [micState EXCEPT ![d] = post]
       /\ hist' = [hist EXCEPT !.unwound = IF panics THEN @ \cup {d} ELSE @]
       /\ trace' = [trace EXCEPT ![d] =
                      Append(@, [data |-> in.data, pre |-> micState[d].tag,
                                 post |-> post.tag, sent |-> << >>])]
       /\ last' = [dev |-> d, input |-> in, pre |-> micState[d], post |-> post,
                   now |-> now1, sent |-> << >>]
       /\ clock' = now1
  /\ nChunks' = nChunks + 1
  /\ UNCHANGED <<enabled, batchQ, norm, wire, boot, loopVars, chanVars, appVars>>

Next ==
  \/ Draw
  \/ OnTick
  \/ OnKeyboardEvent
  \/ OnLog
  \/ OnTranscription
  \/ OnRawChunk
  \/ OnBatchChunk
  \/ TranscriptionReturns
  \/ PublishRawChunk
  \/ StreamCallback

Spec == Init /\ [][Next]_vars

\* The first buffer a device delivers in the audio scenario: an active one,
\* different for each device.
Opening(d) ==
  IF d = "micA" THEN AudioChunk(<<30>>, 1, 16000) ELSE AudioChunk(<<-30, 5>>, 2, 48000)

\* The application with every device enabled and the bridge not configured,
\* at the first iteration of run_ui: the streams are already running, and
\* each device of `started` has had its callback called once, at instant 0,
\* with an active buffer.
AudioInitWith(started) ==
  LET r == [d \in Devices |->
              IF d \in started
              THEN process_input_data_f32(Opening(d).channels, Opening(d).sample_rate,
                                          Opening(d).data, initial_state(TRUE), InitLevels, 0, 0)
              ELSE [state |-> initial_state(TRUE), levels |-> InitLevels, sent |-> << >>]]
  IN
  /\ enabled = [d \in Devices |-> TRUE]
  /\ micState = [d \in Devices |-> r[d].state]
  /\ audio_levels = [d \in Devices |-> r[d].levels]
  /\ batchQ = << >>
  /\ clock = 0
  /\ nChunks = 0
  /\ trace = [d \in Devices |->
               IF d \in started
               THEN << [data |-> Opening(d).data, pre |-> initial_state(TRUE).tag,
                        post |-> r[d].state.tag, sent |-> r[d].sent] >>
               ELSE << >>]
  /\ last = IF started = {} THEN NoCall
            ELSE LET d == CHOOSE x \in started : TRUE IN
                 [dev |-> d, input |-> Opening(d), pre |-> initial_state(TRUE),
                  post |-> r[d].state, now |-> 0, sent |-> r[d].sent]
  /\ hist = NoHistory
  /\ norm = NotNormalizing
  /\ wire = NoExchange
  /\ boot = NotBooting
  /\ pc = "draw"
  /\ result = "none"
  /\ steps = 0
  /\ rawQ = << >>
  /\ request = None
  /\ resultQ = << >>
  /\ logQ = << >>
  /\ activity_log = << >>
  /\ transcription_callbacks = <<"WriteJsonLine">>
  /\ hue = [auth_state |-> "Unauthenticated", username |-> None, bridge_ip |-> ""]
  /\ archive = << >>
  /\ term = InitialTerminal
  /\ key_config = DefaultKeys

AudioInit == \E started \in {{}, Devices} : AudioInitWith(started)

AudioSpec == AudioInit /\ [][Next]_vars

\* A holder of raw_audio_sender publishes a buffer under a name that is not
\* in the registry.
PublishStrayChunk ==
  /\ pc # "returned"
  /\ nChunks < MaxDelivered
  /\ \E in \in UiInputs("micB") :
       rawQ' = Append(rawQ, [mic_name |-> "unplugged", data |-> in.data,
                             channels |-> in.channels, sample_rate |-> in.sample_rate])
  /\ nChunks' = nChunks + 1
  /\ UNCHANGED <<enabled, micState, audio_levels, batchQ, clock, trace, last, hist, norm, wire, boot>>
  /\ UNCHANGED <<loopVars, request, resultQ, logQ, appVars>>

StrayNext == Next \/ PublishStrayChunk

\* The application, with raw chunks of an unregistered device among those
\* of the registered ones.
StraySpec == Init /\ [][StrayNext]_vars

\* run_app after run_ui has returned: `app_state.terminal.take().unwrap()`,
\* disable_raw_mode()?, execute!(.., LeaveAlternateScreen)?,
\* terminal.show_cursor()?, and the result of run_ui.
RunAppReturns ==
  /\ pc = "returned"
  /\ term.run_app = "running"
  /\ IF ~term.slot
     THEN term' = [term EXCEPT !.run_app = "panicked"]
     ELSE \E failed \in {"none", "disable_raw_mode", "LeaveAlternateScreen", "show_cursor"} :
            term' = [slot |-> FALSE,
                     raw_mode |-> term.raw_mode /\ failed = "disable_raw_mode",
                     alternate_screen |->
                       term.alternate_screen /\ failed \in {"disable_raw_mode", "LeaveAlternateScreen"},
                     cursor_hidden |-> term.cursor_hidden /\ failed # "none",
                     run_app |-> IF failed = "none" THEN result ELSE "Err"]
  /\ UNCHANGED <<segVars, loopVars, chanVars, activity_log, transcription_callbacks, hue, archive, key_config>>

ExitNext == Next \/ RunAppReturns

\* The application from the first iteration of run_ui to the return of
\* run_app.
ExitSpec == Init /\ [][ExitNext]_vars

\* The application up to and through its teardown.
\* Key configurations: every binding has its default character or the
\* default character of a binding that comes before or after it.
KeyConfigs ==
  [quit : {"q", "b"}, help : {"h", "q"}, edit_config : {"e", "h"},
   open_config : {"b", "e"}, open_logs : {"b", "x"},
   authenticate_lights : {"a", "b"}, toggle_chat_lights : {"l", "a"}]

\* The application with any of the key configurations; the bridge is not
\* configured.
KeyInit ==
  /\ \E keys \in KeyConfigs : InitWithKeys({"micA"}, keys)
  /\ hue.username = None
  /\ hue.bridge_ip = ""

\* The loop with terminal events only.
KeyNext == Draw \/ OnKeyboardEvent

KeySpec == KeyInit /\ [][KeyNext]_vars

TeardownNext == Next \/ TeardownCallback

TeardownSpec == Init /\ [][TeardownNext]_vars

\* The top of the loop in the iterations after the counted ones.
DrawAgain ==
  /\ pc = "draw"
  /\ steps = MaxLoopSteps
  /\ \E ok \in BOOLEAN : draw(ok)
  /\ UNCHANGED <<segVars, steps, chanVars, activity_log, transcription_callbacks, hue, archive, key_config>>

\* The loop running without end: keyboard events come in the counted
\* iterations only, the other events in every iteration.
LiveNext ==
  \/ Draw
  \/ DrawAgain
  \/ OnTick
  \/ (steps < MaxLoopSteps /\ OnKeyboardEvent)
  \/ OnLog
  \/ OnTranscription
  \/ OnRawChunk
  \/ OnBatchChunk
  \/ TranscriptionReturns
  \/ PublishRawChunk
  \/ StreamCallback

\* terminal.draw returns and the awaited request completes; select! polls
\* its branches in a random order, so a branch that is ready again and
\* again is taken.
LiveFairness ==
  /\ WF_vars(Draw \/ DrawAgain)
  /\ WF_vars(TranscriptionReturns)
  /\ SF_vars(OnRawChunk)

LiveSpec == AudioInitWith({}) /\ [][LiveNext]_vars /\ LiveFairness

SelectFairness_biased ==
  /\ WF_vars(Draw \/ DrawAgain)
  /\ WF_vars(TranscriptionReturns)
  /\ WF_vars(OnTick)

\* tokio::select! without `biased;` starts polling at a branch drawn at
\* random in every iteration: each branch that is ready again and again is
\* taken.  terminal.draw returns and the awaited request completes.
SelectFairness ==
  /\ WF_vars(Draw \/ DrawAgain)
  /\ WF_vars(TranscriptionReturns)
  /\ SF_vars(OnTick)
  /\ SF_vars(OnLog)
  /\ SF_vars(OnTranscription)
  /\ SF_vars(OnRawChunk)
  /\ SF_vars(OnBatchChunk)

\* One device enabled, the bridge not configured.
FairInit ==
  /\ InitWith({"micA"})
  /\ hue.username = None
  /\ hue.bridge_ip = ""

\* The loop running without end, every branch of select! treated alike.
FairSpec == FairInit /\ [][LiveNext]_vars /\ SelectFairness

\* ======================================================= AudioChunk::downmix
\* An f32 sample (and what is computed from samples) as a fraction of
\* thousandths.
Sample(x) == [num |-> x, den |-> 1]

AddFrac(a, b) == [num |-> a.num * b.den + b.num * a.den, den |-> a.den * b.den]

\* iter().sum::<f32>()
RECURSIVE Sum(_)
Sum(s) == IF s = << >> THEN Sample(0) ELSE AddFrac(Head(s), Sum(Tail(s)))

RECURSIVE GCD(_, _)
GCD(a, b) == IF b = 0 THEN a ELSE GCD(b, a % b)

CeilDiv(a, b) == (a + b - 1) \div b

chunks_exact(data, n) ==
  [k \in 1 .. (Len(data) \div n) |-> SubSeq(data, (k - 1) * n + 1, k * n)]

\* slice::chunks(n): consecutive groups of n elements, the last one with
\* what is left when the length is not a multiple of n.
chunks(data, n) ==
  [k \in 1 .. CeilDiv(Len(data), n) |->
     SubSeq(data, (k - 1) * n + 1, IF k * n < Len(data) THEN k * n ELSE Len(data))]

\* chunk.iter().sum::<f32>() / self.channels as f32, as a fraction.
frame_value(chunk, channels) ==
  [num |-> Sum(chunk).num, den |-> Sum(chunk).den * channels]

\* "convert to mono"
to_mono(c) ==
  IF c.channels > 1
  THEN LET groups == chunks(c.data, c.channels) IN
       [c EXCEPT !.data = [k \in 1 .. Len(groups) |-> frame_value(groups[k], c.channels)],
                 !.channels = 1]
  ELSE c

\* rubato::FftFixedInOut::new(fs_in, fs_out, chunk_size_in, channels): the
\* lengths of the input and of the output of one call of process.
FftFixedInOut_new(fs_in, fs_out, chunk_size_in) ==
  LET gcd == GCD(fs_in, fs_out)
      fft_chunks == CeilDiv(chunk_size_in, fs_in \div gcd)
  IN [chunk_size_in |-> fft_chunks * (fs_in \div gcd),
      chunk_size_out |-> fft_chunks * (fs_out \div gcd)]

\* What one call of process makes of the frames from .. to of its input:
\* chunk_size_out values, each standing for the resampler's output at that
\* position for those input frames.
resampled(from, to, chunk_size_out) ==
  [j \in 1 .. chunk_size_out |-> [of |-> <<from, to>>, at |-> j]]

\* resampler.process(&[data], None): one call on the whole buffer.  A buffer
\* shorter than chunk_size_in is an error.  A longer one is an error in the
\* releases that want the exact length (exact) and is read up to
\* chunk_size_in, the rest being left out, in the others.
process(resampler, data, exact) ==
  IF Len(data) < resampler.chunk_size_in \/ (exact /\ Len(data) # resampler.chunk_size_in)
  THEN [ok |-> FALSE, data |-> << >>]
  ELSE [ok |-> TRUE, data |-> resampled(1, resampler.chunk_size_in, resampler.chunk_size_out)]

resample_always(c, exact) ==
  LET resampler == FftFixedInOut_new(c.sample_rate, SAMPLE_RATE, FramesPerBuffer)
      out == process(resampler, c.data, exact)
  IN IF out.ok
     THEN [panicked |-> FALSE,
           chunk |-> [c EXCEPT !.data = out.data, !.sample_rate = SAMPLE_RATE]]
     ELSE [panicked |-> TRUE, chunk |-> c]

\* "resample to 16khz"; .expect("Resampling failed") panics on an error.
resample(c, exact) ==
  IF c.sample_rate # SAMPLE_RATE
  THEN LET resampler == FftFixedInOut_new(c.sample_rate, SAMPLE_RATE, FramesPerBuffer)
           out == process(resampler, c.data, exact)
       IN IF out.ok
          THEN [panicked |-> FALSE,
                chunk |-> [c EXCEPT !.data = out.data, !.sample_rate = SAMPLE_RATE]]
          ELSE [panicked |-> TRUE, chunk |-> c]
  ELSE [panicked |-> FALSE, chunk |-> c]

\* AudioChunk::downmix
downmix(c, exact) == resample(to_mono(c), exact)

\* The sample at position i of a generated buffer.
SampleAt(i) == Sample(((i * 7) % 61) - 30)

\* The chunks downmix is applied to: every length around the frame groups
\* and around one and more resampler blocks, one to three channels, the
\* canonical rate and two others.
NormLengths ==
  (0 .. MaxFrames) \cup UNION { {k * FramesPerBuffer - 1, k * FramesPerBuffer,
                                 k * FramesPerBuffer + 1} : k \in 1 .. MaxBlocks }
NormInputs ==
  { AudioChunk([i \in 1 .. n |-> SampleAt(i)], ch, rate) :
      n \in NormLengths, ch \in 1 .. 3, rate \in {SAMPLE_RATE, 44100, 48000} }

\* downmix applied to a chunk.
Normalize ==
  /\ norm.stage = "input"
  /\ \E exact \in BOOLEAN :
       LET r == downmix(norm.input, exact) IN
       norm' = IF r.panicked
               THEN [stage |-> "panicked", input |-> norm.input]
               ELSE [stage |-> "normalized", input |-> norm.input, output |-> r.chunk]
  /\ UNCHANGED <<enabled, micState, audio_levels, batchQ, clock, nChunks, trace, last, hist, wire, boot>>
  /\ UNCHANGED uiVars

\* downmix applied to what downmix returned.
NormalizeAgain ==
  /\ norm.stage = "normalized"
  /\ \E exact \in BOOLEAN :
       LET r == downmix(norm.output, exact) IN
       norm' = [stage |-> "again", input |-> norm.input, output |-> norm.output,
                panicked |-> r.panicked, second |-> r.chunk]
  /\ UNCHANGED <<enabled, micState, audio_levels, batchQ, clock, nChunks, trace, last, hist, wire, boot>>
  /\ UNCHANGED uiVars

NormNext == Normalize \/ NormalizeAgain

\* downmix alone, applied to every chunk of NormInputs.
NormInit ==
  /\ \E c \in NormInputs : norm = [stage |-> "input", input |-> c]
  /\ wire = NoExchange
  /\ boot = NotBooting
  /\ enabled = [d \in Devices |-> FALSE]
  /\ micState = [d \in Devices |-> initial_state(enabled[d])]
  /\ audio_levels = [d \in Devices |-> InitLevels]
  /\ batchQ = << >>
  /\ clock = 0
  /\ nChunks = 0
  /\ trace = [d \in Devices |-> << >>]
  /\ last = NoCall
  /\ hist = NoHistory
  /\ pc = "draw"
  /\ result = "none"
  /\ steps = 0
  /\ rawQ = << >>
  /\ request = None
  /\ resultQ = << >>
  /\ logQ = << >>
  /\ activity_log = << >>
  /\ transcription_callbacks = <<"WriteJsonLine">>
  /\ hue = [auth_state |-> "Unauthenticated", username |-> None, bridge_ip |-> ""]
  /\ archive = << >>
  /\ term = InitialTerminal
  /\ key_config = DefaultKeys

NormSpec == NormInit /\ [][NormNext]_vars

\* ====================================================== event-loop claims
\* One iteration step of run_ui other than the completion of a request.
LoopStep ==
  Draw \/ OnTick \/ OnKeyboardEvent \/ OnLog \/ OnTranscription \/ OnRawChunk \/ OnBatchChunk

\* C1 as stated: while the HTTP request of a batch chunk is in flight the
\* event loop is not suspended: it can still take a step (a tick is always
\* there to be consumed).
C1_LoopRunsDuringRequest ==
  (request # None /\ steps < MaxLoopSteps) => ENABLED LoopStep

\* C2 as stated: each device has exactly one Microphone State, and a
\* Microphone State changes only in a step in which the event loop takes a
\* raw chunk off the raw-chunk queue.
C2_StateOwnedByEventLoop ==
  [][ /\ DOMAIN micState' = Devices
      /\ micState' # micState => (pc = "select" /\ rawQ # << >> /\ rawQ' = Tail(rawQ)) ]_vars

\* C3 as stated: the event loop returns only through the quit binding, with
\* success; no error of a single event makes it return.
C3_LoopReturnsOnlyOnQuit ==
  pc = "returned" => result = "Ok"

\* ======================================================= segmenter claims
RECURSIVE Flatten(_)
Flatten(ss) == IF ss = << >> THEN << >> ELSE Head(ss) \o Flatten(Tail(ss))

OneSecond == HangSecs * TicksPerSecond

\* A chunk's mean absolute amplitude, compared with 0.01.
AboveThreshold(data) == Len(data) > 0 /\ SumAbs(data) > Threshold * Len(data)
SilentChunk(data) == Len(data) > 0 /\ SumAbs(data) <= Threshold * Len(data)

IsStart(tr, i) == tr[i].pre = "WaitingForVoiceActivity" /\ tr[i].post = "VoiceActivated"
IsClose(tr, c) == tr[c].pre = "VoiceActivated" /\ tr[c].post = "WaitingForVoiceActivity"

\* The index of the chunk that caused the latest transition out of
\* WaitingForVoiceActivity.
LastStart(tr) ==
  CHOOSE i \in 1 .. Len(tr) : IsStart(tr, i) /\ \A j \in i + 1 .. Len(tr) : ~IsStart(tr, j)

DataFrom(tr, i) == Flatten([k \in 1 .. Len(tr) - i + 1 |-> tr[k + i - 1].data])

\* C4: whenever a device is in VoiceActivated, its accumulated samples are
\* the concatenation, in arrival order, of the samples of every chunk of
\* that device processed since, and including, the chunk that took it out
\* of WaitingForVoiceActivity.
C4_AccumulatorIsConcatenation ==
  \A d \in Devices :
    micState[d].tag = "VoiceActivated" =>
      /\ \E i \in 1 .. Len(trace[d]) : IsStart(trace[d], i)
      /\ micState[d].active.data_so_far = DataFrom(trace[d], LastStart(trace[d]))

C4_Witness ==
  \E d \in Devices :
    /\ micState[d].tag = "VoiceActivated"
    /\ Len(trace[d]) = 3
    /\ IsStart(trace[d], 1)
    /\ SilentChunk(trace[d][2].data)
    /\ AboveThreshold(trace[d][3].data)

\* The samples of the batch chunks emitted for a device, in emission order.
Emitted(tr) == Flatten([k \in 1 .. Len(tr) |-> Flatten([j \in 1 .. Len(tr[k].sent) |-> tr[k].sent[j].data])])

\* Chunk k lies in an utterance that has closed: it is at or after a start
\* at i and before (inclusive: at or before) the first close after i.
InUtterance(tr, k, inclusive) ==
  \E i \in 1 .. k, c \in k .. Len(tr) :
    /\ IsStart(tr, i)
    /\ IsClose(tr, c)
    /\ \A j \in i + 1 .. c - 1 : ~IsClose(tr, j)
    /\ inclusive \/ k < c

Observed(tr, inclusive) ==
  Flatten([k \in 1 .. Len(tr) |-> IF InUtterance(tr, k, inclusive) THEN tr[k].data ELSE << >>])

C6_SilentChunkInVoiceActivated ==
  (last.pre.tag = "VoiceActivated" /\ SilentChunk(last.input.data)) =>
    IF last.now - last.pre.active.last_activity > OneSecond
    THEN /\ last.sent = << AudioChunk(last.pre.active.data_so_far,
                                      last.input.channels,
                                      last.pre.active.sample_rate) >>
         /\ batchQ # << >>
         /\ batchQ[Len(batchQ)] = last.sent[1]
         /\ last.post = WaitingForVoiceActivity
    ELSE /\ last.sent = << >>
         /\ last.post.tag = "VoiceActivated"
         /\ last.post.active.data_so_far =
              last.pre.active.data_so_far \o last.input.data
         /\ last.post.active.last_activity = last.pre.active.last_activity
         /\ last.post.active.sample_rate = last.pre.active.sample_rate

C6_Witness ==
  /\ last.pre.tag = "VoiceActivated"
  /\ SilentChunk(last.input.data)
  /\ Len(last.sent) = 1
  /\ last.pre.active.sample_rate # last.input.sample_rate
  /\ last.sent[1].channels = last.input.channels

\* C7 as stated: in WaitingForVoiceActivity an active chunk gives
\* VoiceActivated with started_at = last_activity_at, the chunk's samples
\* and the chunk's rate; a silent chunk leaves the state and emits nothing.
C7_ActivationSameInstant ==
  last.pre.tag = "WaitingForVoiceActivity" =>
    /\ last.sent = << >>
    /\ IF AboveThreshold(last.input.data)
       THEN /\ last.post.tag = "VoiceActivated"
            /\ last.post.active.activity_started = last.post.active.last_activity
            /\ last.post.active.data_so_far = last.input.data
            /\ last.post.active.sample_rate = last.input.sample_rate
       ELSE last.post = WaitingForVoiceActivity

\* C8: a device that is Disabled stays Disabled and emits no batch chunk,
\* whatever chunks it is given and whenever.
C8_DisabledStaysDisabled ==
  /\ \A d \in Devices :
       ~enabled[d] => /\ micState[d] = Disabled
                      /\ \A k \in 1 .. Len(trace[d]) : trace[d][k].sent = << >>
  /\ last.pre.tag = "Disabled" => (last.post = Disabled /\ last.sent = << >>)

C8_Witness ==
  \E d \in Devices :
    /\ ~enabled[d]
    /\ Len(trace[d]) = 3
    /\ AboveThreshold(trace[d][1].data)
    /\ SilentChunk(trace[d][3].data)
    /\ clock > OneSecond
    /\ batchQ = << >>

\* C9: from WaitingForVoiceActivity, chunks none of which has a mean
\* absolute amplitude above 0.01 emit nothing and leave the state
\* WaitingForVoiceActivity after every chunk.
C9_SilenceNeverActivates ==
  \A d \in Devices :
    (enabled[d] /\ \A k \in 1 .. Len(trace[d]) : ~AboveThreshold(trace[d][k].data)) =>
      /\ micState[d] = WaitingForVoiceActivity
      /\ \A k \in 1 .. Len(trace[d]) :
           trace[d][k].sent = << >> /\ trace[d][k].post = "WaitingForVoiceActivity"

C9_Witness ==
  \E d \in Devices :
    /\ enabled[d]
    /\ Len(trace[d]) = 3
    /\ \A k \in 1 .. 3 : ~AboveThreshold(trace[d][k].data)
    /\ \E k \in 1 .. 3 : SumAbs(trace[d][k].data) = Threshold * Len(trace[d][k].data)
                          /\ Len(trace[d][k].data) > 0
    /\ clock > OneSecond

\* C10: the hang timer runs from the last active chunk (an active chunk
\* sets last_activity to now, a silent one leaves it), and a silent chunk
\* closes the utterance exactly when more than 1 s has elapsed: at exactly
\* 1 s it does not.
C10_HangTimerStrict ==
  last.pre.tag = "VoiceActivated" =>
    /\ AboveThreshold(last.input.data) =>
         (last.post.tag = "VoiceActivated" /\ last.post.active.last_activity = last.now)
    /\ SilentChunk(last.input.data) =>
         LET elapsed == last.now - last.pre.active.last_activity IN
         /\ elapsed = OneSecond => (last.post.tag = "VoiceActivated" /\ last.sent = << >>)
         /\ elapsed > OneSecond => (last.post.tag = "WaitingForVoiceActivity" /\ Len(last.sent) = 1)
         /\ last.post.tag = "VoiceActivated" =>
              last.post.active.last_activity = last.pre.active.last_activity

C10_Witness ==
  /\ last.pre.tag = "VoiceActivated"
  /\ SilentChunk(last.input.data)
  /\ last.now - last.pre.active.last_activity = OneSecond
  /\ last.post.tag = "VoiceActivated"
  /\ Len(trace[last.dev]) = 3
  /\ SilentChunk(trace[last.dev][2].data)

AtThreshold(data) == Len(data) > 0 /\ SumAbs(data) = Threshold * Len(data)

\* C11: the activity test is strict in both states that use it.  A chunk
\* whose mean absolute amplitude is exactly 0.01 does not activate a waiting
\* device and does not refresh last_activity of an active one; a chunk whose
\* amplitude is above 0.01 activates a waiting device and refreshes
\* last_activity of an active one.
C11_ActivityTestStrict ==
  /\ (last.pre.tag = "WaitingForVoiceActivity" /\ AtThreshold(last.input.data)) =>
       (last.post = WaitingForVoiceActivity /\ last.sent = << >>)
  /\ (last.pre.tag = "VoiceActivated" /\ AtThreshold(last.input.data)
        /\ last.post.tag = "VoiceActivated") =>
       last.post.active.last_activity = last.pre.active.last_activity
  /\ (last.pre.tag = "WaitingForVoiceActivity" /\ AboveThreshold(last.input.data)) =>
       last.post.tag = "VoiceActivated"
  /\ (last.pre.tag = "VoiceActivated" /\ AboveThreshold(last.input.data)) =>
       /\ last.post.tag = "VoiceActivated"
       /\ last.post.active.last_activity = last.now
       /\ last.sent = << >>

C11_Witness ==
  /\ last.pre.tag = "VoiceActivated"
  /\ AtThreshold(last.input.data)
  /\ last.post.tag = "VoiceActivated"
  /\ last.now > last.pre.active.last_activity

\* The index of the chunk that opened the utterance closed at index c.
OpenerOf(tr, c) ==
  CHOOSE i \in 1 .. c - 1 : IsStart(tr, i) /\ \A j \in i + 1 .. c - 1 : ~IsStart(tr, j)

IsPrefix(p, q) == Len(p) <= Len(q) /\ SubSeq(q, 1, Len(p)) = p

\* C12: every batch chunk ever emitted, whatever the raw chunks were (empty
\* ones included), has a non-empty sample sequence that begins with the
\* samples of the active chunk that opened its utterance.
C12_BatchNeverEmpty ==
  /\ \A i \in 1 .. Len(batchQ) : Len(batchQ[i].data) > 0
  /\ \A d \in Devices : \A c \in 1 .. Len(trace[d]) :
       trace[d][c].sent # << >> =>
         /\ \E i \in 1 .. c - 1 : IsStart(trace[d], i)
         /\ LET opener == trace[d][OpenerOf(trace[d], c)].data IN
            /\ AboveThreshold(opener)
            /\ \A k \in 1 .. Len(trace[d][c].sent) :
                 /\ Len(trace[d][c].sent[k].data) > 0
                 /\ IsPrefix(opener, trace[d][c].sent[k].data)

C12_Witness ==
  \E d \in Devices :
    /\ Len(trace[d]) = 3
    /\ trace[d][2].data = << >>
    /\ trace[d][3].data = << >>
    /\ trace[d][3].sent # << >>
    /\ Len(batchQ) = 1

\* C13 as stated: an empty raw chunk is discarded before any amplitude is
\* computed: the call that handles it leaves every Microphone State
\* unchanged, emits no batch chunk and adds no amplitude value to the levels.
C13_EmptyChunkDiscarded ==
  [][ (nChunks' = nChunks + 1 /\ last'.input.data = << >>) =>
        /\ micState' = micState
        /\ batchQ' = batchQ
        /\ audio_levels' = audio_levels ]_vars

\* ------------------------------------------------------- channel claims
PendingFor(d) == SelectSeq(rawQ, LAMBDA m : m.mic_name = d)
Chunks(q) == [i \in 1 .. Len(q) |-> q[i].chunk]
EmittedBy(d) == Chunks(SelectSeq(hist.emitted, LAMBDA m : m.dev = d))
SentBy(d) == Flatten([k \in 1 .. Len(trace[d]) |-> trace[d][k].sent])

C15_EveryChunkConsumedOnce ==
  /\ [](\A d \in Devices : hist.consumed[d] \o PendingFor(d) = hist.published[d])
  /\ \A d \in Devices : \A n \in 1 .. MaxDelivered :
       (Len(hist.published[d]) >= n) ~> (Len(hist.consumed[d]) >= n \/ pc = "returned")

C15_Witness ==
  \E d \in Devices :
    /\ Len(hist.consumed[d]) = 2
    /\ hist.taken # << >>
    /\ pc # "returned"

\* C16 as stated: no failure inside a capture callback leaves the callback:
\* also when the receiving end of its channel is closed or the shared state
\* cannot be accessed, the callback returns normally and does not panic.
C16_CallbackNeverUnwinds ==
  hist.unwound = {}

\* C17 as stated: every batch chunk handed to the Transcription Client has
\* been normalized: the chunk of the HTTP request has one channel and a
\* sample rate of 16000.
C17_RequestIsNormalized ==
  request # None => (request.value.channels = 1 /\ request.value.sample_rate = 16000)

\* --------------------------------------------------------- downmix claims
Canonical(c) == c.channels = 1 /\ c.sample_rate = SAMPLE_RATE

\* C18: normalization is the identity on canonical input and idempotent.  A
\* chunk with one channel at 16000 Hz is returned as it is (and downmix
\* does not fail on it), the mono step leaves every mono chunk as it is,
\* and downmix applied to what downmix returned returns it unchanged.
C18_IdentityAndIdempotent ==
  /\ (norm.stage = "panicked") => ~Canonical(norm.input)
  /\ (norm.stage \in {"normalized", "again"} /\ Canonical(norm.input)) =>
       norm.output = norm.input
  /\ (norm.stage \in {"input", "normalized", "again"} /\ norm.input.channels = 1) =>
       to_mono(norm.input) = norm.input
  /\ (norm.stage = "again") => (~norm.panicked /\ norm.second = norm.output)

C18_Witness ==
  /\ norm.stage = "again"
  /\ norm.input.channels = 2
  /\ norm.input.sample_rate = 48000
  /\ norm.output # norm.input
  /\ norm.second = norm.output

\* The sum of the samples a .. b of data (each a whole number of thousandths).
RECURSIVE SumRange(_, _, _)
SumRange(data, a, b) == IF a > b THEN 0 ELSE data[a].num + SumRange(data, a + 1, b)

\* v is total / n.
IsQuotient(v, total, n) == v.num * n = total * v.den

\* What downmix returned for a chunk of several channels that needed no
\* resampling is what its mono step made.
Mixed == norm.stage \in {"normalized", "again"} /\ norm.input.channels > 1
           /\ norm.input.sample_rate = SAMPLE_RATE

\* C19 as stated: for a chunk of more than one channel, whatever its length,
\* the mono data has len(input) / channels samples and its i-th sample is
\* the arithmetic mean of the i-th group of `channels` consecutive samples.
C19_DownmixIsMeanOfFrames ==
  Mixed =>
    LET in == norm.input.data
        ch == norm.input.channels
        out == norm.output.data
    IN /\ norm.output.channels = 1
       /\ Len(out) = Len(in) \div ch
       /\ \A i \in 1 .. Len(out) :
            IsQuotient(out[i], SumRange(in, (i - 1) * ch + 1, i * ch), ch)

\* C19 amended: that holds when the length is a multiple of channels; when
\* it is not, the mono data has one more sample, after the means of the
\* complete groups: the sum of the samples left over divided by channels.
C19_DownmixFrames ==
  Mixed =>
    LET in == norm.input.data
        ch == norm.input.channels
        out == norm.output.data
        whole == Len(in) \div ch
    IN /\ norm.output.channels = 1
       /\ Len(out) = IF Len(in) % ch = 0 THEN whole ELSE whole + 1
       /\ \A i \in 1 .. whole :
            IsQuotient(out[i], SumRange(in, (i - 1) * ch + 1, i * ch), ch)
       /\ Len(in) % ch # 0 =>
            IsQuotient(out[whole + 1], SumRange(in, whole * ch + 1, Len(in)), ch)

C19_Witness ==
  /\ Mixed
  /\ norm.input.channels = 3
  /\ Len(norm.input.data) = 7
  /\ Len(norm.output.data) = 3

\* The output of resampling n mono frames in successive blocks of
\* block_in frames (the last one padded when shorter), in order.
InBlocks(n, block_in, block_out) ==
  Flatten([k \in 1 .. CeilDiv(n, block_in) |->
             resampled((k - 1) * block_in + 1,
                       IF k * block_in < n THEN k * block_in ELSE n, block_out)])

\* C20 as stated: for a chunk whose rate is not 16000 Hz and whose mono
\* length is any positive number, downmix does not fail, and what it
\* returns is the concatenation, in order, of the resampler's outputs for
\* the successive 441-frame blocks of the mono data, the last block padded.
C20_ResampleInBlocks ==
  (/\ norm.stage \in {"normalized", "again", "panicked"}
   /\ norm.input.sample_rate # SAMPLE_RATE
   /\ Len(norm.input.data) > 0) =>
    LET r == FftFixedInOut_new(norm.input.sample_rate, SAMPLE_RATE, FramesPerBuffer)
        n == Len(to_mono(norm.input).data)
    IN /\ norm.stage # "panicked"
       /\ norm.output.sample_rate = SAMPLE_RATE
       /\ norm.output.data = InBlocks(n, r.chunk_size_in, r.chunk_size_out)

\* ============================================ transcription client claims
\* f32::to_le_bytes for the samples of BodySamples: 0.0 is 0x00000000, 0.5
\* is 0x3F000000, 1.0 is 0x3F800000, and the sign is the top bit.
f32_le_bytes(x) ==
  CASE x = 0 -> <<0, 0, 0, 0>>
    [] x = 500 -> <<0, 0, 0, 63>>
    [] x = -500 -> <<0, 0, 0, 191>>
    [] x = 1000 -> <<0, 0, 128, 63>>
    [] x = -1000 -> <<0, 0, 128, 191>>

\* C21 as stated: the body posted for a normalized batch of n samples is
\* the n samples as little-endian 32-bit floats and nothing else, 4 * n
\* bytes, and the request has Content-Type audio/f32le.
C21_BodyIsRawF32 ==
  (wire.stage = "returned" /\ wire.request # None /\ Canonical(wire.audio_data)) =>
    LET data == wire.audio_data.data
        sent == wire.request.value
    IN /\ sent.content_type = "audio/f32le"
       /\ Len(sent.body) = 4 * Len(data)
       /\ sent.body = Flatten([i \in 1 .. Len(data) |-> f32_le_bytes(data[i])])

\* What kind of failure an error value of the client tells its caller.
ErrorClass(r) ==
  IF r.tag # "Err" THEN "none"
  ELSE IF "status" \in DOMAIN r.cause THEN "RemoteRejected"
  ELSE IF r.cause = [reqwest |-> "request"] THEN "NetworkError"
  ELSE IF r.cause \in {[reqwest |-> "decode"], [serde |-> "data"]} THEN "ProtocolError"
  ELSE "other"

Parses(body) == body.json /\ DOMAIN body.value = {"segments", "language"}

RequestCompletes == pc = "transcribing" /\ pc' # "transcribing"

\* C23: when the transcription of a batch chunk fails, the batch is
\* discarded, one entry describing the failure is pushed to the activity
\* log, nothing is published on the result queue and nothing is archived,
\* every microphone state is unchanged and the loop goes on to its next
\* iteration.
C23_FailureIsLoggedOnly ==
  [][ (RequestCompletes /\ wire'.result.tag = "Err") =>
        /\ request' = None
        /\ batchQ' = batchQ
        /\ logQ' = Append(logQ, Log("Transcription failed", error_text(wire'.result)))
        /\ resultQ' = resultQ
        /\ archive' = archive
        /\ micState' = micState
        /\ pc' = "draw"
        /\ result' = result ]_vars

\* A rejected request has been logged while a device is in an utterance.
C23_Witness ==
  /\ wire.stage = "returned"
  /\ ErrorClass(wire.result) = "RemoteRejected"
  /\ pc = "draw"
  /\ logQ # << >>
  /\ logQ[Len(logQ)].msg = "Transcription failed"
  /\ archive = << >>
  /\ \E d \in Devices : micState[d].tag = "VoiceActivated"

\* The step in which the loop takes a transcription result.
ResultTaken == pc = "select" /\ Len(resultQ') < Len(resultQ)

\* The entry a consumer call leaves on the activity log, if any.
ConsumerEntry(call) ==
  IF call.outcome = "err" THEN << Log("Error processing ChatLights", call.segment) >>
  ELSE IF call.outcome = "sent" THEN << Log("Sent light command", call.segment) >>
  ELSE << >>

\* C24: when a consumer fails for a segment of a transcription result, the
\* failure is an activity-log entry and nothing else: the consumer is
\* called for every segment of the result, the failed ones and those after
\* them included, each call leaves its own entry, and the loop goes on to
\* its next iteration.
C24_ConsumerFailureIsLoggedOnly ==
  [][ ResultTaken =>
        LET t == Head(resultQ)
            calls == hist'.dispatch
        IN /\ pc' = "draw"
           /\ result' = result
           /\ resultQ' = Tail(resultQ)
           /\ contains_ChatLights(transcription_callbacks) =>
                /\ Len(calls) = Len(t.segments)
                /\ \A i \in 1 .. Len(calls) : calls[i].segment = t.segments[i]
           /\ logQ' = logQ \o Flatten([i \in 1 .. Len(calls) |-> ConsumerEntry(calls[i])])
           /\ micState' = micState
           /\ archive' = archive ]_vars

\* The consumer failed for the first of two segments and was called for
\* the second, which it acted on; the loop is at its next iteration.
C24_Witness ==
  /\ pc = "draw"
  /\ Len(hist.dispatch) = 2
  /\ hist.dispatch[1].outcome = "err"
  /\ hist.dispatch[2].outcome = "sent"
  /\ Len(logQ) >= 2
  /\ logQ[Len(logQ) - 1] = Log("Error processing ChatLights", "one")
  /\ logQ[Len(logQ)] = Log("Sent light command", "two")

\* C25: for every successful transcription result one "Heard" entry per
\* segment is pushed, in segment order; the result is appended to the
\* archive once, or not at all when the write fails, which is then logged
\* as an error; the result is published on the result queue whether or not
\* the write failed; and when the loop takes the result, the consumer that
\* is enabled at that time is called for every segment.
C25_ResultLoggedArchivedDispatched ==
  [][ /\ (RequestCompletes /\ wire'.result.tag = "Ok") =>
           LET t == wire'.result.value IN
           /\ logQ' = logQ \o [i \in 1 .. Len(t.segments) |-> Log("Heard", t.segments[i])]
           /\ archive' = IF wire'.saved THEN Append(archive, t) ELSE archive
           /\ ~wire'.saved => Event("error", "Failed to save transcription") \in hist'.events
           /\ resultQ' = Append(resultQ, t)
           /\ pc' = "draw"
      /\ ResultTaken =>
           /\ hist'.dispatch # << >> <=>
                (contains_ChatLights(transcription_callbacks) /\ Head(resultQ).segments # << >>)
           /\ hist'.dispatch # << >> =>
                [i \in 1 .. Len(hist'.dispatch) |-> hist'.dispatch[i].segment]
                  = Head(resultQ).segments ]_vars

\* A result of two segments whose archive write failed: it is on the result
\* queue, its two entries are the latest on the log, nothing is archived.
C25_Witness ==
  /\ wire.stage = "returned"
  /\ wire.result.tag = "Ok"
  /\ ~wire.saved
  /\ Len(wire.result.value.segments) = 2
  /\ resultQ = << wire.result.value >>
  /\ archive = << >>
  /\ Len(logQ) >= 2
  /\ logQ[Len(logQ) - 1] = Log("Heard", "one")
  /\ logQ[Len(logQ)] = Log("Heard", "two")
  /\ Event("error", "Failed to save transcription") \in hist.events

\* ======================================================== frame claims
\* The step in which the loop takes a raw chunk.
RawTaken == pc = "select" /\ Len(rawQ') < Len(rawQ)

\* C26: a raw chunk whose device name is not in the registry is dropped
\* with a warning: no microphone state, and neither the batch-chunk queue
\* nor the result queue, changes, and the loop goes on to its next iteration.
C26_UnknownDeviceDropped ==
  [][ (RawTaken /\ Head(rawQ).mic_name \notin Devices) =>
        /\ rawQ' = Tail(rawQ)
        /\ micState' = micState
        /\ audio_levels' = audio_levels
        /\ batchQ' = batchQ
        /\ resultQ' = resultQ
        /\ logQ' = logQ
        /\ Event("warn", "Received audio chunk for unknown mic") \in hist'.events
        /\ pc' = "draw"
        /\ result' = result ]_vars

\* An active chunk of an unregistered device has been taken and dropped
\* while a registered device is in an utterance.
C26_Witness ==
  /\ Event("warn", "Received audio chunk for unknown mic") \in hist.events
  /\ rawQ = << >>
  /\ pc = "draw"
  /\ micState["micA"].tag = "VoiceActivated"
  /\ batchQ = << >>

\* The step in which the loop takes a terminal event.
KeyTaken == hist'.key # hist.key

\* The characters the configuration binds to a command.
BoundKeys ==
  {KeyConfigDefault.quit, KeyConfigDefault.help, KeyConfigDefault.edit_config,
   KeyConfigDefault.open_config, KeyConfigDefault.open_logs,
   LightsKeys.authenticate_lights, LightsKeys.toggle_chat_lights}

\* Nothing of the application state changes in a step.
AppStateUnchanged ==
  /\ UNCHANGED <<enabled, micState, audio_levels, batchQ, rawQ, request, resultQ, logQ>>
  /\ UNCHANGED <<activity_log, transcription_callbacks, hue, archive>>

\* C27: a key press that matches no binding, and a terminal event that is
\* not a key press, change nothing in the application state and the loop
\* goes on to its next iteration; a press of the quit key makes run_ui
\* return Ok, and after it has returned no event is handled any more.
C27_UnboundKeysIgnoredQuitReturns ==
  [][ /\ KeyTaken =>
           LET ev == hist'.key.event IN
           /\ (ev.kind \in {"release", "resize", "end"}
                 \/ (ev.kind = "press" /\ ev.code \notin BoundKeys)) =>
                (AppStateUnchanged /\ pc' = "draw" /\ result' = result)
           /\ (ev.kind = "press" /\ ev.code = KeyConfigDefault.quit) =>
                (AppStateUnchanged /\ pc' = "returned" /\ result' = "Ok")
      /\ pc = "returned" =>
           /\ UNCHANGED <<rawQ, batchQ, request, resultQ, logQ>>
           /\ UNCHANGED <<activity_log, transcription_callbacks, hue, archive>>
           /\ pc' = "returned"
           /\ result' = result ]_vars

\* The key 'x' was pressed while a device was in an utterance and a raw
\* chunk was pending, and the loop is at its next iteration.
C27_Witness ==
  /\ hist.key.event = [kind |-> "press", code |-> "x"]
  /\ hist.key.at = steps
  /\ pc = "draw"
  /\ micState["micA"].tag = "VoiceActivated"
  /\ rawQ # << >>

\* ========================================================= exit claims
\* C28 as stated: once run_ui has returned, by the quit key or by an error,
\* run_app returns with the terminal restored (raw mode off, alternate
\* screen left, cursor shown), and after the exit no pending raw chunk,
\* batch chunk or transcription result is taken, transcribed or dispatched.
C28_TerminalRestoredOnExit ==
  [][ /\ term'.run_app # "running" =>
           /\ term'.run_app \in {"Ok", "Err"}
           /\ ~term'.raw_mode
           /\ ~term'.alternate_screen
           /\ ~term'.cursor_hidden
      /\ pc = "returned" =>
           /\ UNCHANGED <<rawQ, batchQ, request, resultQ, archive>>
           /\ hist'.dispatch = hist.dispatch ]_vars

\* ===================================================== scheduling claims
\* What an iteration takes from each source: a message of a queue, or a
\* terminal event.
TakenFrom ==
  [raw |-> IF Len(rawQ') < Len(rawQ) THEN 1 ELSE 0,
   batch |-> IF Len(batchQ') < Len(batchQ) THEN 1 ELSE 0,
   results |-> IF Len(resultQ') < Len(resultQ) THEN 1 ELSE 0,
   log |-> IF Len(logQ') < Len(logQ) THEN 1 ELSE 0,
   key |-> IF KeyTaken THEN 1 ELSE 0]

\* The step in which the loop leaves select! with one of its branches.
BranchTaken == pc = "select" /\ pc' # "select"

\* The tick branch: the iteration ends and nothing else happens.
TickTaken ==
  /\ BranchTaken
  /\ UNCHANGED <<rawQ, batchQ, resultQ, logQ, hist, micState, activity_log>>

Given(given, i, j) == Flatten([k \in 1 .. j - i + 1 |-> given[k + i - 1].data])

\* The batch chunk was accumulated from consecutive buffers of the sequence.
AccumulatedFrom(given, chunk) ==
  \E i \in 1 .. Len(given) : \E j \in i .. Len(given) :
    chunk.data = Given(given, i, j)

\* C30 as stated: with two devices delivering in any interleaving, a step
\* of the segmenter for one device leaves the state and the accumulator of
\* the other unchanged; every batch chunk emitted carries the name of the
\* device whose buffers it was accumulated from; and a batch holds the
\* samples of that device only.
C30_DevicesIsolatedAndNamed ==
  [][ /\ \A a \in Devices : \A b \in Devices \ {a} :
           trace'[a] # trace[a] => (micState'[b] = micState[b] /\ trace'[b] = trace[b])
      /\ \A i \in 1 .. Len(hist'.emitted) :
           LET m == hist'.emitted[i] IN
           /\ AccumulatedFrom(trace'[m.dev], m.chunk)
           /\ "mic_name" \in DOMAIN m.chunk
           /\ m.chunk.mic_name = m.dev ]_vars

\* ========================================================= burst claims
\* The buffers fed in a burst scenario, and whether the i-th one is active.
Fed == hist.fed
ActiveAt(i) == AboveThreshold(Fed[i].data)

\* The positions where a burst begins, the last active buffer of the burst
\* that begins at s, and the last buffer of the silence that follows it.
BurstStarts == { i \in 1 .. Len(Fed) : ActiveAt(i) /\ (i = 1 \/ ~ActiveAt(i - 1)) }

BurstEnd(s) ==
  CHOOSE e \in s .. Len(Fed) :
    /\ \A j \in s .. e : ActiveAt(j)
    /\ e = Len(Fed) \/ ~ActiveAt(e + 1)

SilenceEnd(s) ==
  CHOOSE e \in BurstEnd(s) .. Len(Fed) :
    /\ \A j \in BurstEnd(s) + 1 .. e : ~ActiveAt(j)
    /\ e = Len(Fed) \/ ActiveAt(e + 1)

\* The silence after the burst that begins at s went on until more than
\* one second had passed since the last active buffer of the burst.
SilenceOutlasts(s) ==
  /\ SilenceEnd(s) > BurstEnd(s)
  /\ Fed[SilenceEnd(s)].at - Fed[BurstEnd(s)].at > OneSecond

\* The samples of the burst that begins at s.
BurstSamples(s) == Flatten([k \in 1 .. BurstEnd(s) - s + 1 |-> Fed[k + s - 1].data])

\* The number of bursts that begin before position s.
BurstsBefore(s) == Cardinality({ t \in BurstStarts : t < s })

\* C31: a device that starts in WaitingForVoiceActivity and is fed k bursts
\* of active buffers, each followed by silent buffers until more than one
\* second has passed since the last active buffer of the burst, has emitted
\* exactly k batch chunks, the i-th one beginning with the samples of the
\* i-th burst.
C31_OneBatchPerBurst ==
  (\A s \in BurstStarts : SilenceOutlasts(s)) =>
    /\ Len(hist.emitted) = Cardinality(BurstStarts)
    /\ \A s \in BurstStarts :
         IsPrefix(BurstSamples(s), hist.emitted[BurstsBefore(s) + 1].chunk.data)

\* Two bursts of different samples, both outlasted by their silence.
C31_Witness ==
  /\ Cardinality(BurstStarts) = 2
  /\ \A s \in BurstStarts : SilenceOutlasts(s)
  /\ \E s, t \in BurstStarts : BurstSamples(s) # BurstSamples(t)
  /\ Len(hist.emitted) = 2

\* ======================================================== startup claims
\* The Microphone n is enabled and a stream can be started for it: its
\* device is found and none of the calls of stream creation fails for it.
Startable(n) ==
  /\ boot.microphones[n].config.enabled
  /\ \E k \in 1 .. Len(boot.host.devices) :
       /\ registry_name(boot.host, k) = n
       /\ boot.host.devices[k].fault = "none"

\* C32 as stated: an enabled device that cannot be found, opened,
\* configured or started is skipped and nothing else: starting the streams
\* does not end in a panic, and once it is over the application is in the
\* event loop with a stream for every other enabled device.
C32_FailingDeviceAloneSkipped ==
  /\ boot.stage # "idle" => boot.panic = None
  /\ boot.stage = "running" =>
       \A n \in DOMAIN boot.microphones : Startable(n) => boot.microphones[n].stream # None

\* The positions of the devices whose name cannot be read.
Unnamed == { k \in 1 .. Len(boot.host.devices) : boot.host.devices[k].name = None }

\* C33 as stated: the device at enumeration position i whose name cannot be
\* read is called Unknown-<i> by the listing, by the registry built at
\* startup, and by the lookup that opens its stream, which therefore finds
\* the device under that name.
C33_UnknownNamedConsistently ==
  \A k \in Unnamed :
    LET n == Unknown(k - 1) IN
    /\ boot.listing.kind = "Some" => boot.listing.value[k] = n
    /\ boot.stage \in {"initialized", "running"} => n \in DOMAIN boot.microphones
    /\ (boot.stage \in {"initialized", "running", "panicked"} /\ n \in boot.visited
          /\ boot.microphones[n].config.enabled) =>
         (find(boot.host, n) = Some(k) /\ boot.panic # Some("Microphone not found"))

\* ======================================================== closure claims
\* C34 as stated: a call of the segmenter emits at most one batch chunk,
\* and emits one only for a silent chunk (mean amplitude at most the
\* threshold) given to a device in VoiceActivated; an active chunk given to
\* a device in VoiceActivated emits nothing and extends the utterance that
\* is open, however long after the previous active chunk it arrives.
C34_OnlySilenceClosesAnUtterance ==
  last.dev # "none" =>
    /\ Len(last.sent) <= 1
    /\ last.sent # << >> =>
         (SilentChunk(last.input.data) /\ last.pre.tag = "VoiceActivated")
    /\ (AboveThreshold(last.input.data) /\ last.pre.tag = "VoiceActivated") =>
         /\ last.sent = << >>
         /\ last.post.tag = "VoiceActivated"
         /\ last.post.active.activity_started = last.pre.active.activity_started
         /\ last.post.active.data_so_far = last.pre.active.data_so_far \o last.input.data

\* A step in which the segmenter processes a buffer.
ChunkProcessed == last' # last

\* C35: the end of an utterance is evaluated only when a buffer is
\* processed.  A step without one leaves the state of the device as it is
\* and emits nothing, however much time passes; and when silent buffers
\* keep arriving, a device in VoiceActivated is eventually back in
\* WaitingForVoiceActivity with what it had accumulated emitted as a batch.
C35_ClosureNeedsAChunk ==
  /\ [][ ~ChunkProcessed => (micState' = micState /\ batchQ' = batchQ) ]_vars
  /\ (micState["micA"].tag = "VoiceActivated") ~>
       (/\ micState["micA"].tag = "WaitingForVoiceActivity"
        /\ Len(last.sent) = 1
        /\ last.sent[1].data = accumulated(last.pre)
        /\ batchQ # << >>
        /\ batchQ[Len(batchQ)] = last.sent[1])

\* The pause has elapsed and no buffer has come: the device is still in
\* VoiceActivated and holds its samples.
C35_Witness ==
  /\ micState["micA"].tag = "VoiceActivated"
  /\ clock - micState["micA"].active.last_activity > OneSecond
  /\ Len(micState["micA"].active.data_so_far) > 1
  /\ batchQ = << >>

\* ========================================================= request claims
\* A batch chunk is taken from the batch queue, and a transcription result
\* is put on the result queue.
BatchTaken == Len(hist'.taken) = Len(hist.taken) + 1
ResultPublished == Len(resultQ') > Len(resultQ)

\* The batch chunk most recently taken from the batch queue.
LatestTaken == hist.taken[Len(hist.taken)]

\* C36: at most one transcription request is outstanding.  A batch chunk is
\* taken from the batch queue only while no request is outstanding; a
\* result is put on the result queue by the completion of the request of
\* the batch chunk taken last, at the end of the queue: the results are
\* queued in the order in which their batch chunks were taken.
C36_OneRequestAtATime ==
  [][ /\ BatchTaken => (request = None /\ request' = Some(LatestTaken'))
      /\ ResultPublished =>
           /\ request = Some(LatestTaken)
           /\ request' = None
           /\ wire'.audio_data = LatestTaken
           /\ resultQ' = Append(resultQ, wire'.result.value)
      /\ request' # None => (pc' = "transcribing" /\ request'.value = LatestTaken') ]_vars

\* The results of two batch chunks, taken one after the other, are queued.
C36_Witness ==
  /\ Len(hist.taken) = 2
  /\ hist.taken[1] # hist.taken[2]
  /\ Len(resultQ) = 2
  /\ resultQ[1] # resultQ[2]
  /\ request = None

\* ========================================================= state claims
\* The configuration enables the device named n: its entry says so, or it
\* has no entry.
ConfiguredEnabled(n) == n \in DOMAIN boot.config => boot.config[n].enabled

\* C37: a device starts in WaitingForVoiceActivity when its configuration,
\* or the default one for a device without an entry, enables it, and in
\* Disabled otherwise; a stream is started for enabled devices only; and in
\* every state reached a device is Disabled exactly when its configuration
\* disables it.
C37_DisabledIffConfigured ==
  \A n \in DOMAIN boot.microphones :
    LET mic == boot.microphones[n] IN
    /\ mic.config.enabled <=> ConfiguredEnabled(n)
    /\ mic.state.tag = "Disabled" <=> ~ConfiguredEnabled(n)
    /\ (boot.visited = {} /\ ConfiguredEnabled(n)) => mic.state = WaitingForVoiceActivity
    /\ mic.stream # None => ConfiguredEnabled(n)

\* Startup is over and buffers have been delivered: a device disabled by
\* its entry is Disabled and has no stream, a device without an entry has
\* a stream and an utterance open.
C37_Witness ==
  /\ boot.stage = "running"
  /\ \E n, m \in DOMAIN boot.microphones :
       /\ n \in DOMAIN boot.config
       /\ ~boot.config[n].enabled
       /\ boot.microphones[n].state = Disabled
       /\ boot.microphones[n].stream = None
       /\ m \notin DOMAIN boot.config
       /\ boot.microphones[m].stream # None
       /\ boot.microphones[m].state.tag = "VoiceActivated"

\* C38: no device is ever in WaitingForPushToTalk or PushToTalkActivated:
\* from the initial states every sequence of buffers keeps each device in
\* Disabled, WaitingForVoiceActivity or VoiceActivated.
C38_PushToTalkUnreachable ==
  \A d \in Devices :
    micState[d].tag \in {"Disabled", "WaitingForVoiceActivity", "VoiceActivated"}

\* Buffers have been given to a disabled device and to an enabled one,
\* which has opened an utterance and closed it.
C38_Witness ==
  \E d, e \in Devices :
    /\ micState[d] = Disabled
    /\ trace[d] # << >>
    /\ \E c \in 1 .. Len(trace[e]) : IsClose(trace[e], c)
    /\ micState[e] = WaitingForVoiceActivity

\* ======================================================== binding claims
\* The order of the match arms of handle_key_event.
Precedence ==
  << "quit", "help", "edit_config", "open_config", "open_logs",
     "authenticate_lights", "toggle_chat_lights" >>

\* The first binding, in that order, configured with the character c.
FirstBound(c) ==
  LET bound == { i \in 1 .. Len(Precedence) : key_config[Precedence[i]] = c } IN
  IF bound = {} THEN "none"
  ELSE Precedence[CHOOSE i \in bound : \A j \in bound : i <= j]

\* C39: a key press runs at most one binding action, the first in the
\* order quit, help, edit_config, open_config, open_logs,
\* authenticate_lights, toggle_chat_lights among the bindings configured
\* with the character pressed; what the other bindings would do does not
\* happen.
C39_FirstBindingOnly ==
  [][ (KeyTaken /\ hist'.key.event.kind = "press") =>
        LET b == FirstBound(hist'.key.event.code) IN
        /\ hist'.key.ran = b
        /\ b = "quit" <=> (pc' = "returned" /\ result' = "Ok")
        /\ IF b = "help"
           THEN logQ' = Append(logQ, Log("Help requested, TODO: implement this lol", ""))
           ELSE b \notin {"authenticate_lights", "toggle_chat_lights"} => logQ' = logQ
        /\ b # "edit_config" => term' = term
        /\ b # "authenticate_lights" => hue' = hue
        /\ IF b = "toggle_chat_lights"
           THEN transcription_callbacks' # transcription_callbacks
           ELSE transcription_callbacks' = transcription_callbacks ]_vars

\* With the default key configuration the key of both open_config and
\* open_logs was pressed, and open_config ran.
C39_Witness ==
  /\ key_config = DefaultKeys
  /\ key_config.open_config = key_config.open_logs
  /\ hist.key.event = [kind |-> "press", code |-> key_config.open_logs]
  /\ hist.key.ran = "open_config"

\* ========================================================= bridge claims
\* C40: at startup and after every sequence of calls of
\* authenticate_lights, hue_auth_state is Authenticated exactly when
\* config.hue_username is present.  Authenticated is never left; a call
\* made while Authenticated changes neither the state nor the
\* configuration, and ends in the same way whatever the bridge would
\* answer, with the entry that says so: no request is sent.
C40_AuthenticatedIffUsername ==
  /\ hue.auth_state = "Authenticated" <=> hue.username # None
  /\ [][ /\ hue'.auth_state = "Authenticated" <=> hue'.username # None
         /\ hue.auth_state = "Authenticated" => hue' = hue
         /\ (KeyTaken /\ hist'.key.ran = "authenticate_lights"
               /\ hue.auth_state = "Authenticated") =>
              /\ key_config' = key_config
              /\ logQ' = Append(logQ, Log("Already authenticated with Hue bridge.", ""))
              /\ pc' = "draw" ]_vars

\* The bridge has accepted the registration in one call, and a second call
\* was made while Authenticated.
C40_Witness ==
  /\ hue.auth_state = "Authenticated"
  /\ hist.key.ran = "authenticate_lights"
  /\ \E i, j \in 1 .. Len(logQ) :
       /\ i < j
       /\ logQ[i] = Log("Successfully authenticated with Hue bridge.", "")
       /\ logQ[j] = Log("Already authenticated with Hue bridge.", "")
====
